---- MODULE Spec2Model ----
(***************************************************************************)
(* A model of parts of the HHVM tree: the JIT's Switch lowering and        *)
(* exception-handler entry (irgen-control.cpp), the iterator               *)
(* specialization (irgen-iter-spec.cpp), the member fanout of the typing   *)
(* dependency graph, the enforceability validator, the symbol suggestion   *)
(* filter and the notebook converter.                                      *)
(*                                                                         *)
(* Each component has its own state variable (a record) and its own        *)
(* specification; the variables of the other components stay Idle.         *)
(***************************************************************************)
EXTENDS Integers, Sequences, FiniteSets

VARIABLES sw, it, ic, eh, dg, tv, sy, nb, mz, ov, sk, sr

vars == <<sw, it, ic, eh, dg, tv, sy, nb, mz, ov, sk, sr>>

Idle == [phase |-> "idle"]

Range(s) == {s[i] : i \in DOMAIN s}

(***************************************************************************)
(* Machine integers.  HHVM's Int is 64 bits wide; the model keeps the      *)
(* two's complement wrap-around at a width of IntBits.                     *)
(***************************************************************************)
IntBits == 4

MinInt == 0 - 2 ^ (IntBits - 1)

MaxInt == 2 ^ (IntBits - 1) - 1

Wrap(x) == ((x - MinInt) % (2 ^ IntBits)) + MinInt

(***************************************************************************)
(*                       Switch lowering: emitSwitch                       *)
(***************************************************************************)
MaxArms == 2

\* One IR instruction: an opcode, a constant operand and a branch target.
Instr(op, c, t) == [op |-> op, c |-> c, t |-> t]

NoTarget == 0 - 1

\* Block* getBlock(env, sk): the in-region block of the offset, or a fresh
\* exit block to it; control reaches the bytecode offset either way.
getBlock(off) == off

\* checkBounds with the range check one entry too wide.
checkBoundsOffByOne(bounded, base, nTargets, defaultOff) ==
  IF ~bounded THEN <<>>
  ELSE << Instr("SubInt", base, NoTarget),
          Instr("CheckRange_JmpZero", nTargets + 1, getBlock(defaultOff)) >>

\* The bounds check of emitSwitch's checkBounds lambda: nothing once the
\* switch is no longer `bounded`.
checkBounds(bounded, base, nTargets, defaultOff) ==
  IF ~bounded THEN <<>>
  ELSE << Instr("SubInt", base, NoTarget),
          Instr("CheckRange_JmpZero", nTargets, getBlock(defaultOff)) >>

\* env.irb->hasBlock(sk): the offset has a block in the region being compiled.
hasBlock(c, off) == off \in c.region

\* The loop over the profiled cases with the flag left set by the bounds
\* check of the default case.
RECURSIVE lowerCasesKeepBounded(_, _, _)
lowerCasesKeepBounded(c, i, bounded) ==
  IF i > Len(c.values) THEN [ir |-> <<>>, bounded |-> bounded]
  ELSE
    LET caseIdx   == c.values[i]
        size      == Len(c.iv)
        nTargets  == IF c.kind = "Bounded" THEN size - 2 ELSE size
        targetOff == c.iv[caseIdx + 1]
        defaultOff == c.iv[size]
        skip      == \/ ~hasBlock(c, targetOff)
                     \/ (bounded /\ caseIdx = size - 2)
        isDefault == caseIdx = size - 1
        here      == IF skip THEN <<>>
                     ELSE IF isDefault
                       THEN checkBounds(bounded, c.base, nTargets, defaultOff)
                     ELSE << Instr("EqInt_JmpNZero",
                                   Wrap(caseIdx + (IF bounded THEN c.base ELSE 0)),
                                   getBlock(targetOff)) >>
        rest      == lowerCasesKeepBounded(c, i + 1, bounded)
    IN [ir |-> here \o rest.ir, bounded |-> rest.bounded]

\* The loop of emitSwitch over the profiled cases, hottest first: `i` walks
\* `values`, `bounded` is the flag that checkBounds clears.  Returns the code
\* emitted and the flag after the loop.
RECURSIVE lowerCases(_, _, _)
lowerCases(c, i, bounded) ==
  IF i > Len(c.values) THEN [ir |-> <<>>, bounded |-> bounded]
  ELSE
    LET caseIdx   == c.values[i]
        size      == Len(c.iv)
        nTargets  == IF c.kind = "Bounded" THEN size - 2 ELSE size
        targetOff == c.iv[caseIdx + 1]
        defaultOff == c.iv[size]
        skip      == \/ ~hasBlock(c, targetOff)
                     \/ (bounded /\ caseIdx = size - 2)
        isDefault == caseIdx = size - 1
        here      == IF skip THEN <<>>
                     ELSE IF isDefault
                       THEN checkBounds(bounded, c.base, nTargets, defaultOff)
                     ELSE << Instr("EqInt_JmpNZero",
                                   Wrap(caseIdx + (IF bounded THEN c.base ELSE 0)),
                                   getBlock(targetOff)) >>
        after     == IF ~skip /\ isDefault THEN FALSE ELSE bounded
        rest      == lowerCases(c, i + 1, after)
    IN [ir |-> here \o rest.ir, bounded |-> rest.bounded]

\* void emitSwitch(IRGS&, SwitchKind, int64_t base, const ImmVector& iv): the
\* IR emitted for one Switch bytecode.
emitSwitch(c) ==
  LET size       == Len(c.iv)
      bounded    == c.kind = "Bounded"
      nTargets   == IF bounded THEN size - 2 ELSE size
      defaultOff == c.iv[size]
  IN
  IF c.type # "Int"
    THEN (IF c.type = "Vec" THEN << Instr("DecRef", 0, NoTarget) >> ELSE <<>>)
         \o << Instr("Jmp", 0, getBlock(defaultOff)) >>
  ELSE
    LET shouldLower == \E i \in 1..size : hasBlock(c, c.iv[i])
        low ==
          IF shouldLower /\ c.profile = "optimizing"
            THEN lowerCases(c, 1, bounded)
          ELSE IF c.profile = "profiling"
            THEN [ir |-> << Instr("ProfileSwitchDest",
                                  IF bounded THEN c.base ELSE 0, NoTarget) >>,
                  bounded |-> bounded]
          ELSE [ir |-> <<>>, bounded |-> bounded]
    IN low.ir
       \o checkBounds(low.bounded, c.base, nTargets, defaultOff)
       \o << Instr("LdSwitchDest_JmpExit", size, NoTarget) >>

\* The target of a jump the IR cannot take: LdSwitchDest on an index outside
\* its table.
BadTarget == 0 - 2

\* Runs the emitted code from instruction pc with `index` in the SSA value the
\* code dispatches on; the result is the bytecode offset control reaches.
RECURSIVE runSwitch(_, _, _, _)
runSwitch(c, ir, pc, index) ==
  IF pc > Len(ir) THEN BadTarget
  ELSE
    LET ins == ir[pc] IN
    CASE ins.op = "Jmp" -> ins.t
      [] ins.op = "SubInt" -> runSwitch(c, ir, pc + 1, Wrap(index - ins.c))
      [] ins.op = "CheckRange_JmpZero" ->
           IF index >= 0 /\ index < ins.c
             THEN runSwitch(c, ir, pc + 1, index)
             ELSE ins.t
      [] ins.op = "EqInt_JmpNZero" ->
           IF ins.c = index THEN ins.t ELSE runSwitch(c, ir, pc + 1, index)
      [] ins.op = "LdSwitchDest_JmpExit" ->
           IF index \in 0..(ins.c - 1) THEN c.iv[index + 1] ELSE BadTarget
      [] OTHER -> runSwitch(c, ir, pc + 1, index)

\* The hotness orders sortedSwitchProfile can return: every order of the cases.
Perms(n) == {p \in [1..n -> 0..(n - 1)] : \A i, j \in 1..n : p[i] = p[j] => i = j}

Identity(n) == [i \in 1..n |-> i - 1]

\* The offset vectors of a Switch with n entries: all targets distinct, or the
\* default sharing its target with the first arm.
OffsetVectors(n) ==
  { [i \in 1..n |-> i], [i \in 1..n |-> IF i = n THEN 1 ELSE i] }

SwitchInit ==
  \E n \in 1..MaxArms, k \in {"Bounded", "Unbounded"}, b \in {MinInt, 0, 1},
     ty \in {"Int", "Str", "Vec"}, pr \in {"profiling", "optimizing", "none"} :
    \E iv \in OffsetVectors(n + 2), vs \in Perms(n + 2) :
      \E rg \in SUBSET Range(iv) :
        LET c == [kind |-> k, base |-> b, iv |-> iv, type |-> ty,
                  profile |-> pr, values |-> vs, region |-> rg]
        IN /\ c.profile # "optimizing" => c.values = Identity(Len(c.iv))
           /\ c.type # "Int" => c.profile = "none" /\ c.base = 0
           \* assertx(IMPLIES(!(type <= TInt), bounded)); an unbounded Switch
           \* has no base
           /\ c.kind = "Unbounded" => c.type = "Int" /\ c.base = 0
           /\ sw = [phase |-> "start", c |-> c, ir |-> <<>>, val |-> 0,
                    taken |-> NoTarget]

\* The scrutinee values tried: around the arms' range and at both ends of Int.
SwitchValues(c) ==
  IF c.kind = "Unbounded" THEN 0..(Len(c.iv) - 1)
  ELSE IF c.type = "Int"
    THEN {MinInt, MaxInt} \cup {Wrap(c.base + k) : k \in (0 - 1)..(Len(c.iv) - 1)}
    ELSE {0}

\* Compile the bytecode.
SwEmit ==
  /\ sw.phase = "start"
  /\ sw' = [sw EXCEPT !.phase = "emitted", !.ir = emitSwitch(sw.c)]
  /\ UNCHANGED <<it, ic, eh, dg, tv, sy, nb, mz, ov, sk, sr>>

\* Run the emitted code on one scrutinee.
SwDispatch ==
  /\ sw.phase = "emitted"
  /\ \E v \in SwitchValues(sw.c) :
       sw' = [sw EXCEPT !.phase = "done", !.val = v,
                        !.taken = runSwitch(sw.c, sw.ir, 1, v)]
  /\ UNCHANGED <<it, ic, eh, dg, tv, sy, nb, mz, ov, sk, sr>>

SwitchNext == SwEmit \/ SwDispatch

SwitchSpecInit ==
  /\ SwitchInit
  /\ it = Idle /\ ic = Idle /\ eh = Idle /\ dg = Idle
  /\ tv = Idle /\ sy = Idle /\ nb = Idle
  /\ mz = Idle /\ ov = Idle /\ sk = Idle /\ sr = Idle

SpecSwitch == SwitchSpecInit /\ [][SwitchNext]_vars

\* C1: a bounded integer Switch with base B and N arms sends B + k, 0 <= k < N,
\* to arm k's target, and every other integer and every non-integer to the
\* default target, whatever the profile state, hotness order and region.
C1_SwitchDispatch ==
  sw.phase = "done" /\ sw.c.kind = "Bounded" =>
    LET c == sw.c
        n == Len(c.iv) - 2
        k == sw.val - c.base
    IN IF c.type = "Int" /\ k \in 0..(n - 1)
         THEN sw.taken = c.iv[k + 1]
         ELSE sw.taken = c.iv[Len(c.iv)]

\* An optimizing lowering whose hottest in-region case is the default, which
\* has sent an in-range scrutinee to its arm.
C1_Witness ==
  /\ sw.phase = "done"
  /\ sw.c.kind = "Bounded"
  /\ sw.c.profile = "optimizing"
  /\ sw.c.type = "Int"
  /\ sw.c.base = MinInt
  /\ sw.c.values[1] = Len(sw.c.iv) - 1
  /\ sw.c.iv[Len(sw.c.iv)] \in sw.c.region
  /\ sw.val = sw.c.base + 1
  /\ Len(sw.c.iv) = 4
  /\ sw.taken = sw.c.iv[2]

\* The positions of the emitted code that hold the opcode.
SwPositions(op) == {p \in 1..Len(sw.ir) : sw.ir[p].op = op}

\* A bounded integer Switch has been compiled.
SwBoundedIntEmitted ==
  /\ sw.phase \in {"emitted", "done"}
  /\ sw.c.kind = "Bounded"
  /\ sw.c.type = "Int"

\* C23: in the code of a bounded integer Switch the generic LdSwitchDest comes
\* last, and before it the subtraction of the base and the range check against
\* the number of arms stand exactly once, one after the other, whether the
\* cascade emitted them or not; a comparison before them tests the raw value
\* against caseIdx + base, a comparison after them the rebased value against
\* caseIdx, and each jumps to the target of its case.
C23_BoundsCheckedOnceBeforeFallback ==
  SwBoundedIntEmitted =>
    LET c    == sw.c
        size == Len(c.iv)
        subs == SwPositions("SubInt")
        chks == SwPositions("CheckRange_JmpZero")
    IN /\ SwPositions("LdSwitchDest_JmpExit") = {Len(sw.ir)}
       /\ Cardinality(subs) = 1
       /\ Cardinality(chks) = 1
       /\ \A p \in subs :
            /\ chks = {p + 1}
            /\ p + 1 < Len(sw.ir)
            /\ sw.ir[p].c = c.base
            /\ sw.ir[p + 1].c = size - 2
            /\ sw.ir[p + 1].t = c.iv[size]
            /\ \A q \in SwPositions("EqInt_JmpNZero") :
                 \E caseIdx \in 0..(size - 2) :
                   /\ sw.ir[q].t = c.iv[caseIdx + 1]
                   /\ c.iv[caseIdx + 1] \in c.region
                   /\ sw.ir[q].c =
                        IF q < p THEN Wrap(caseIdx + c.base) ELSE caseIdx
                   /\ q < p => caseIdx < size - 2

\* The cascade of an optimizing lowering with a base other than zero emitted
\* the bounds check at the default arm, between two comparisons.
C23_Witness ==
  /\ SwBoundedIntEmitted
  /\ sw.c.profile = "optimizing"
  /\ sw.c.base = 1
  /\ Len(sw.ir) = 5
  /\ sw.ir[1].op = "EqInt_JmpNZero"
  /\ sw.ir[1].c = 1
  /\ sw.ir[2].op = "SubInt"
  /\ sw.ir[4].op = "EqInt_JmpNZero"
  /\ sw.ir[4].c = 1

(***************************************************************************)
(*          Iterator specialization: the code run for one loop             *)
(*                                                                         *)
(* An array is its storage, a sequence of slots that are live ("L") or     *)
(* tombstones ("T"); Count is the number of live slots, the iteration end  *)
(* of a dict or keyset is the number of used slots.  A pointer position is *)
(* [ptr |-> address]; an index position is an integer.                     *)
(***************************************************************************)
MaxSlots == 3

\* Where the elements of an array start, and the size of one element.
ArrData == 16

ElmSize == 2

\* getAccessor with index positions for every dict and keyset.
getAccessorVecPtrOnly(baseDT, keyTypes, layout, cfg) ==
  IF layout # "vanilla"
    THEN [kind |-> "Bespoke", dt |-> baseDT, layout |-> layout,
          isPtrIter |-> FALSE, keyTypes |-> "Any"]
  ELSE IF baseDT = "Vec"
    THEN [kind |-> "Vec", dt |-> baseDT, layout |-> layout,
          isPtrIter |-> cfg.baseConst /\ ~cfg.withKeys /\ cfg.storesUnaligned,
          keyTypes |-> "Any"]
  ELSE IF baseDT = "Dict"
    THEN [kind |-> "Dict", dt |-> baseDT, layout |-> layout,
          isPtrIter |-> FALSE, keyTypes |-> keyTypes]
  ELSE IF baseDT = "Keyset"
    THEN [kind |-> "Keyset", dt |-> baseDT, layout |-> layout,
          isPtrIter |-> FALSE, keyTypes |-> "Any"]
  ELSE [kind |-> "Abort", dt |-> baseDT, layout |-> layout,
        isPtrIter |-> FALSE, keyTypes |-> "Any"]

\* std::unique_ptr<Accessor> getAccessor(baseDT, keyTypes, layout, data): the
\* accessor's kind, whether it iterates by pointer, and whether it expects
\* tombstones.  cfg holds IterArgs' flags and the build's settings.
getAccessor(baseDT, keyTypes, layout, cfg) ==
  IF layout # "vanilla"
    THEN [kind |-> "Bespoke", dt |-> baseDT, layout |-> layout,
          isPtrIter |-> FALSE, keyTypes |-> "Any"]
  ELSE IF baseDT = "Vec"
    THEN [kind |-> "Vec", dt |-> baseDT, layout |-> layout,
          isPtrIter |-> cfg.baseConst /\ ~cfg.withKeys /\ cfg.storesUnaligned,
          keyTypes |-> "Any"]
  ELSE IF baseDT = "Dict"
    THEN [kind |-> "Dict", dt |-> baseDT, layout |-> layout,
          isPtrIter |-> cfg.baseConst, keyTypes |-> keyTypes]
  ELSE IF baseDT = "Keyset"
    THEN [kind |-> "Keyset", dt |-> baseDT, layout |-> layout,
          isPtrIter |-> cfg.baseConst, keyTypes |-> "Any"]
  \* default: always_assert(false)
  ELSE [kind |-> "Abort", dt |-> baseDT, layout |-> layout,
        isPtrIter |-> FALSE, keyTypes |-> "Any"]

\* Accessor::mayContainTombstones of the four accessors.
mayContainTombstones(acc) ==
  CASE acc.kind = "Vec" -> FALSE
    [] acc.kind = "Dict" -> acc.keyTypes = "Any"
    [] acc.kind = "Keyset" -> TRUE
    [] OTHER -> FALSE

\* Count: the number of elements, tombstones not counted.
Count(arr) == Cardinality({i \in DOMAIN arr.slots : arr.slots[i] = "L"})

\* DictIterEnd, KeysetIterEnd, BespokeIterEnd: the index one past the last
\* used slot.
IterEnd(arr) == Len(arr.slots)

\* BespokeAccessor::checkBase's mayActuallyContainTombstones.
mayActuallyContainTombstones(acc, cfg) ==
  /\ cfg.emitBespokeMonotypes
  /\ acc.dt # "Vec"
  /\ acc.layout # "struct"

\* Accessor::checkBase: TRUE when the base passes the accessor's checks, FALSE
\* when the code leaves by the side exit.
checkBase(acc, arr, cfg) ==
  /\ arr.dt = acc.dt
  /\ (cfg.allowBespoke => arr.layout = acc.layout)
  /\ (acc.kind = "Dict" /\ acc.keyTypes # "Any" => ~arr.mayTomb)
  /\ (acc.kind = "Bespoke" /\ mayActuallyContainTombstones(acc, cfg)
        => Count(arr) = IterEnd(arr))

\* getEndIdx answering with the element count.
getEndIdxCount(acc, arr) == Count(arr)

\* Accessor::getEndIdx: only the accessors that expect tombstones have one.
getEndIdx(acc, arr) == IterEnd(arr)

\* Accessor::getPos: the iterator position of a logical index.
getPos(acc, idx) ==
  IF acc.isPtrIter THEN [ptr |-> ArrData + idx * ElmSize] ELSE idx

\* advancePos moving a pointer by one byte instead of one element.
advancePosByte(acc, pos) ==
  IF acc.isPtrIter THEN [ptr |-> pos.ptr + 1] ELSE pos + 1

\* Accessor::advancePos: one element further.
advancePos(acc, pos) ==
  IF acc.isPtrIter THEN [ptr |-> pos.ptr + ElmSize] ELSE pos + 1

\* posAsInt: PtrToElemAsInt on a pointer position.
posAsInt(acc, pos) == IF ~acc.isPtrIter THEN pos ELSE pos.ptr

\* emitSpecializedNext's asIterPosType: IntAsPtrToElem on a pointer iterator.
asIterPosType(acc, iterPos) ==
  IF ~acc.isPtrIter THEN iterPos ELSE [ptr |-> iterPos]

\* The storage index (from 0) of the element a position designates.
elmIndex(acc, pos) ==
  IF acc.isPtrIter THEN (pos.ptr - ArrData) \div ElmSize ELSE pos

\* Accessor::getElm followed by checkTombstone: "tomb", "live", or "oob" for
\* a read past the used slots.
checkTombstone(acc, arr, pos) ==
  LET i == elmIndex(acc, pos) IN
  IF i < 0 \/ i >= Len(arr.slots) THEN "oob"
  ELSE IF arr.slots[i + 1] = "T" THEN "tomb" ELSE "live"

\* The loop of emitSpecializedInit over the leading tombstones.
RECURSIVE initSkip(_, _, _)
initSkip(acc, arr, pos) ==
  LET t == checkTombstone(acc, arr, pos) IN
  IF t = "tomb" THEN initSkip(acc, arr, advancePos(acc, pos))
  ELSE [fault |-> t = "oob", pos |-> pos]

\* The code of emitSpecializedInit, run on arr: where control goes ("exit",
\* "done", "body" or "fault") and the iterator's fields.
emitSpecializedInit(acc, arr, cfg, iter) ==
  IF ~checkBase(acc, arr, cfg) THEN [iter EXCEPT !.to = "exit"]
  ELSE
    LET size == Count(arr) IN
    IF size = 0 THEN [iter EXCEPT !.to = "done"]
    ELSE
      LET endIdx == IF mayContainTombstones(acc) THEN getEndIdx(acc, arr) ELSE size
          endPos == getPos(acc, endIdx)
          beginPos == getPos(acc, 0)
          first == IF mayContainTombstones(acc)
                     THEN initSkip(acc, arr, beginPos)
                     ELSE [fault |-> FALSE, pos |-> beginPos]
      IN [to |-> IF first.fault THEN "fault" ELSE "body",
          end |-> posAsInt(acc, endPos),
          pos |-> posAsInt(acc, first.pos),
          killed |-> FALSE]

\* The loop of emitSpecializedNext with the element read before the test
\* for the end.
RECURSIVE nextSkipReadFirst(_, _, _, _)
nextSkipReadFirst(acc, arr, phi, end) ==
  LET cur == advancePos(acc, phi)
      t == checkTombstone(acc, arr, cur)
  IN IF t = "oob" THEN [to |-> "fault", pos |-> cur]
     ELSE IF cur = end THEN [to |-> "done", pos |-> phi]
     ELSE IF t = "tomb" THEN nextSkipReadFirst(acc, arr, cur, end)
     ELSE [to |-> "body", pos |-> cur]

\* The loop of emitSpecializedNext: advance, test for the end, skip a
\* tombstone.
RECURSIVE nextSkip(_, _, _, _)
nextSkip(acc, arr, phi, end) ==
  LET cur == advancePos(acc, phi)
      t == checkTombstone(acc, arr, cur)
  IN IF cur = end THEN [to |-> "done", pos |-> phi]
     ELSE IF t = "oob" THEN [to |-> "fault", pos |-> cur]
     ELSE IF t = "tomb" THEN nextSkip(acc, arr, cur, end)
     ELSE [to |-> "body", pos |-> cur]

\* The code of emitSpecializedNext, run on arr with the iterator's fields.
emitSpecializedNext(acc, arr, cfg, iter) ==
  IF ~checkBase(acc, arr, cfg) THEN [iter EXCEPT !.to = "exit"]
  ELSE
    LET old == asIterPosType(acc, iter.pos)
        end == asIterPosType(acc, iter.end)
        r == IF mayContainTombstones(acc)
               THEN nextSkip(acc, arr, old, end)
               ELSE LET cur == advancePos(acc, old) IN
                    IF cur = end THEN [to |-> "done", pos |-> old]
                    ELSE [to |-> "body", pos |-> cur]
    IN IF r.to = "done" THEN [iter EXCEPT !.to = "done", !.killed = TRUE]
       ELSE [iter EXCEPT !.to = r.to, !.pos = posAsInt(acc, r.pos)]

\* The generic iteration protocol: the live slots in storage order.
RECURSIVE genericPositions(_, _)
genericPositions(slots, i) ==
  IF i > Len(slots) THEN <<>>
  ELSE (IF slots[i] = "L" THEN <<i - 1>> ELSE <<>>)
       \o genericPositions(slots, i + 1)

SlotSeqs == UNION {[1..n -> {"L", "T"}] : n \in 0..MaxSlots}

IterCfgs ==
  [baseConst : BOOLEAN, withKeys : BOOLEAN, storesUnaligned : BOOLEAN,
   allowBespoke : BOOLEAN, emitBespokeMonotypes : BOOLEAN]

\* The arrays of the runtime: a vec has no tombstones, a struct dict has
\* none, monotype arrays exist only when the build emits them, bespoke arrays
\* only when it allows them; an array with a tombstone says so in its key
\* types.
IterArrays(cfg) ==
  { a \in [dt : {"Vec", "Dict", "Keyset"}, layout : {"vanilla", "monotype", "struct"},
           slots : SlotSeqs, mayTomb : BOOLEAN] :
      /\ ("T" \in Range(a.slots) => a.mayTomb)
      /\ (a.dt = "Vec" \/ a.layout = "struct" => ~a.mayTomb)
      /\ (a.layout = "struct" => a.dt = "Dict")
      /\ (a.layout = "monotype" => cfg.emitBespokeMonotypes /\ a.dt # "Keyset")
      /\ (a.layout # "vanilla" => cfg.allowBespoke) }

ItInitial ==
  \E cfg \in IterCfgs :
    \E arr \in IterArrays(cfg) :
      \E layout \in {"vanilla", "monotype", "struct"}, keyTypes \in {"Any", "NoTombstone"} :
        /\ (layout # "vanilla" => cfg.allowBespoke)
        /\ (cfg.emitBespokeMonotypes => cfg.allowBespoke)
        /\ (arr.dt # "Dict" => keyTypes = "Any")
        /\ it = [phase |-> "start", cfg |-> cfg, arr |-> arr,
                 initAcc |-> getAccessor(arr.dt, keyTypes, layout, cfg),
                 nextAcc |-> getAccessor(arr.dt, "Any", layout, cfg),
                 iter |-> [to |-> "start", end |-> 0, pos |-> 0, killed |-> FALSE],
                 visited |-> <<>>]

\* The loop body is entered with the element the iterator's pos designates.
ItEnter(state, acc, iter) ==
  [state EXCEPT !.phase = iter.to, !.iter = iter,
     !.visited = IF iter.to = "body"
                   THEN Append(@, elmIndex(acc, asIterPosType(acc, iter.pos)))
                   ELSE @]

\* The specialized IterInit runs.
ItIterInit ==
  /\ it.phase = "start"
  /\ it' = ItEnter(it, it.initAcc,
                   emitSpecializedInit(it.initAcc, it.arr, it.cfg, it.iter))
  /\ UNCHANGED <<sw, ic, eh, dg, tv, sy, nb, mz, ov, sk, sr>>

\* The loop body ends in the specialized IterNext.
ItIterNext ==
  /\ it.phase = "body"
  /\ it' = ItEnter(it, it.nextAcc,
                   emitSpecializedNext(it.nextAcc, it.arr, it.cfg, it.iter))
  /\ UNCHANGED <<sw, ic, eh, dg, tv, sy, nb, mz, ov, sk, sr>>

IterNext == ItIterInit \/ ItIterNext

IterSpecInit ==
  /\ ItInitial
  /\ sw = Idle /\ ic = Idle /\ eh = Idle /\ dg = Idle
  /\ tv = Idle /\ sy = Idle /\ nb = Idle
  /\ mz = Idle /\ ov = Idle /\ sk = Idle /\ sr = Idle

SpecIter == IterSpecInit /\ [][IterNext]_vars

IsPrefix(s, t) == Len(s) <= Len(t) /\ \A i \in 1..Len(s) : s[i] = t[i]

ItRunning == it.phase \in {"body", "done", "fault"}

\* C2: over a base of N elements without tombstones, of every element kind,
\* the specialized init and nexts visit the positions 0, 1, ..., N-1 in this
\* order, as the generic protocol does, and then take the done branch; with
\* N = 0 the init goes to done and the body is never entered.
C2_VisitsAllInOrder ==
  ItRunning /\ "T" \notin Range(it.arr.slots) =>
    LET n == Len(it.arr.slots) IN
    /\ it.phase # "fault"
    /\ IsPrefix(it.visited, [i \in 1..n |-> i - 1])
    /\ it.visited = SubSeq(genericPositions(it.arr.slots, 1), 1, Len(it.visited))
    /\ (it.phase = "body" => Len(it.visited) >= 1)
    /\ (it.phase = "done" => Len(it.visited) = n)
    /\ (n = 0 => it.phase = "done")

\* A bespoke base of MaxSlots elements iterated to the end.
C2_Witness ==
  /\ it.phase = "done"
  /\ it.initAcc.kind = "Bespoke"
  /\ Len(it.arr.slots) >= 2
  /\ "T" \notin Range(it.arr.slots)
  /\ Len(it.visited) = Len(it.arr.slots)
  /\ it.iter.killed

\* The index the iterator's end field designates.
ItEndIdx == elmIndex(it.initAcc, asIterPosType(it.initAcc, it.iter.end))

\* C3 as stated: over a dict or keyset with tombstones the iteration stops at
\* the live slots only, in the generic order, and the end marker is the
\* tombstone-excluded element count.
C3_EndIsLogicalCount ==
  ItRunning /\ it.initAcc.kind \in {"Dict", "Keyset"} /\ Len(it.visited) >= 1 =>
    /\ IsPrefix(it.visited, genericPositions(it.arr.slots, 1))
    /\ ItEndIdx = Count(it.arr)

\* C3 amended: the iteration stops at the live slots only, in the generic
\* order, and at as many as the logical element count; the end marker is the
\* index one past the last used slot, tombstones included.
C3_EndIsUsedSlots ==
  ItRunning /\ it.initAcc.kind \in {"Dict", "Keyset"} =>
    /\ it.phase # "fault"
    /\ IsPrefix(it.visited, genericPositions(it.arr.slots, 1))
    /\ \A i \in 1..Len(it.visited) : it.arr.slots[it.visited[i] + 1] = "L"
    /\ (it.phase = "done" => Len(it.visited) = Count(it.arr))
    /\ (Len(it.visited) >= 1 => ItEndIdx = IterEnd(it.arr))

\* A keyset or dict with a tombstone between two live slots, iterated to the
\* end.
C3_Witness ==
  /\ it.phase = "done"
  /\ it.initAcc.kind \in {"Dict", "Keyset"}
  /\ it.arr.slots = <<"L", "T", "L">>
  /\ it.visited = <<0, 2>>
  /\ ItEndIdx = 3

\* The iterator holds positions that are addresses of elements, not
\* indices: the end it stores lies in the storage of the array.
ItPointerPositions == it.iter.end >= ArrData

\* The site is a vanilla vec site that is base-constant, emits no keys and
\* has values stored unaligned.
ItConstVecSite ==
  /\ it.initAcc.kind = "Vec"
  /\ it.cfg.baseConst /\ ~it.cfg.withKeys /\ it.cfg.storesUnaligned

\* C20 as stated: only a vec site that is base-constant, emits no keys and
\* has values stored unaligned iterates with pointer positions; any dict,
\* keyset or bespoke site, and any other vec site, has index positions.
C20_PointersOnlyForVec ==
  it.phase = "body" =>
    /\ ItPointerPositions => ItConstVecSite
    /\ it.initAcc.isPtrIter => ItConstVecSite

\* C20 amended: the sites that iterate with pointer positions are the
\* vanilla vec sites that are base-constant, emit no keys and have values
\* stored unaligned, and the vanilla dict and keyset sites that are
\* base-constant, with keys or without; every bespoke site and every
\* base-mutable site has index positions.
C20_PointersForConstBases ==
  it.phase = "body" =>
    LET pointers ==
          \/ ItConstVecSite
          \/ it.initAcc.kind \in {"Dict", "Keyset"} /\ it.cfg.baseConst
    IN /\ ItPointerPositions <=> pointers
       /\ it.initAcc.isPtrIter <=> pointers
       /\ it.nextAcc.isPtrIter <=> pointers

\* A base-constant dict site that emits keys entered its loop with pointer
\* positions.
C20_Witness ==
  /\ it.phase = "body"
  /\ it.initAcc.kind = "Dict"
  /\ it.cfg.baseConst /\ it.cfg.withKeys
  /\ it.initAcc.isPtrIter
  /\ ItPointerPositions
  /\ it.iter.pos = ArrData

\* The index the iterator's pos field designates.
ItPosIdx == elmIndex(it.initAcc, asIterPosType(it.initAcc, it.iter.pos))

\* The base is one that the accessors take to hold tombstones.
ItTombstoneCapable ==
  mayContainTombstones(it.initAcc) \/ mayContainTombstones(it.nextAcc)

\* In the loop, and after it, the stored position is strictly before the
\* stored end; in the loop over a tombstone-capable base it designates a live
\* slot; and no slot at or beyond the used ones was ever read.
ItPosBeforeEnd ==
  /\ it.phase # "fault"
  /\ (it.phase = "body" \/ (it.phase = "done" /\ it.visited # <<>>)) =>
       /\ ItPosIdx >= 0
       /\ ItPosIdx < ItEndIdx
       /\ ItEndIdx <= Len(it.arr.slots)
       /\ it.iter.pos < it.iter.end
  /\ (it.phase = "body" /\ ItTombstoneCapable) =>
       it.arr.slots[ItPosIdx + 1] = "L"

\* A next that finds the end kills the iterator and stores no position.
ItNextAtEnd ==
  (it.phase = "body" /\ it'.phase = "done") =>
    /\ it'.iter.killed
    /\ it'.iter.pos = it.iter.pos
    /\ it'.iter.end = it.iter.end

\* A next that goes back to the body has stored a position further on.
ItNextToBody ==
  (it.phase = "body" /\ it'.phase = "body") =>
    /\ it'.iter.pos > it.iter.pos
    /\ it'.iter.end = it.iter.end
    /\ ~it'.iter.killed

\* C29: the stored position never passes the stored end.  The init loop over
\* the tombstones of a base that is not empty stops at a live slot strictly
\* before the end without reading a slot at or beyond it; each next tests
\* the advanced position against the end before it reads a slot or stores
\* the position, and at the end kills the iterator with the position left
\* as it was.
C29_PosNeverPassesEnd ==
  /\ []ItPosBeforeEnd
  /\ [][ItNextAtEnd /\ ItNextToBody]_vars

\* A base with a tombstone before and after its one live slot: the init
\* stopped at the live slot, the next skipped the tombstone, met the end and
\* killed the iterator.
C29_Witness ==
  /\ it.phase = "done"
  /\ it.arr.slots = <<"T", "L", "T">>
  /\ it.visited = <<1>>
  /\ ItPosIdx = 1
  /\ ItEndIdx = 3
  /\ it.iter.killed

(***************************************************************************)
(*   Iterator specialization: specializeIterInit and specializeIterNext    *)
(*                                                                         *)
(* An ArrayLayout is the set of the concrete layouts it admits.            *)
(***************************************************************************)
LTop == {"vanilla", "monotype", "struct", "logging"}

LVanilla == {"vanilla"}

LBespoke == {"monotype", "struct", "logging"}

LBottom == {}

Layouts == {LTop, LVanilla, LBespoke, {"monotype"}, {"struct"}, {"logging"}}

\* ArrayLayout::vanilla, monotype and is_struct.
vanilla(l) == l = LVanilla

monotype(l) == l = {"monotype"}

is_structNever(l) == FALSE

is_struct(l) == l = {"struct"}

\* The one concrete layout of a layout that passed the three tests above.
LayoutName(l) == CHOOSE x \in l : TRUE

\* ArrayLayout getBaseLayout(SSATmp* base).
getBaseLayout(base, cfg) ==
  IF ~cfg.allowBespoke THEN LVanilla
  \* arrayTypeCouldBeBespoke holds of vec, dict and keyset
  ELSE IF base.dt \notin {"Vec", "Dict", "Keyset"} THEN LVanilla
  ELSE base.layout

\* Accessor::arrType of the accessor getAccessor returns.
arrType(acc, layout, cfg) ==
  IF acc.kind = "Bespoke" THEN [dt |-> acc.dt, layout |-> layout]
  ELSE [dt |-> acc.dt, layout |-> IF cfg.allowBespoke THEN LVanilla ELSE LTop]

\* Type::maybe on array types: a value can have both.
maybe(t1, t2) == t1.dt = t2.dt /\ t1.layout \cap t2.layout # {}

\* The outcome of a specialization attempt: what is returned ("true",
\* "false", or "abort" for a failed assertion), the layout judged and the
\* profile hints afterwards.
Outcome(ret, layout, at, profiles) ==
  [ret |-> ret, layout |-> layout, arrType |-> at, iterProfiles |-> profiles]

NoType == [dt |-> "None", layout |-> LBottom]

\* What both entry points do once the layout is chosen.
specializeWith(base, layout, keyTypes, cfg, profiles) ==
  IF ~vanilla(layout) /\ ~monotype(layout) /\ ~is_struct(layout)
    THEN Outcome("false", layout, NoType, profiles)
  ELSE
    LET acc == getAccessor(base.dt, keyTypes, LayoutName(layout), cfg)
        at == arrType(acc, layout, cfg)
    IN IF acc.kind = "Abort" \/ ~maybe(base, at)
         THEN Outcome("abort", layout, at, profiles)
         ELSE Outcome("true", layout, at, profiles)

\* specializeIterInit that gives a loop up once a site of it was given
\* another layout or another base type.
specializeIterInitDemoting(base, bodyKey, keyTypes, cfg, profiles) ==
  IF base.dt = "Obj" THEN Outcome("false", LBottom, NoType, profiles)
  ELSE
    LET layout == getBaseLayout(base, cfg)
        key == <<bodyKey, base.dt>>
        recorded ==
          IF bodyKey # "null" /\ key \notin DOMAIN profiles
            THEN [k \in DOMAIN profiles \cup {key} |->
                    IF k = key THEN layout ELSE profiles[k]]
            ELSE profiles
    IN IF ~vanilla(layout) /\ ~monotype(layout) /\ ~is_struct(layout)
         THEN Outcome("false", layout, NoType, profiles)
       ELSE IF \E k \in DOMAIN profiles : k # key \/ profiles[k] # layout
         THEN Outcome("false", layout, NoType, profiles)
         ELSE specializeWith(base, layout, keyTypes, cfg, recorded)

\* specializeIterInit that replaces the hint of an earlier site.
specializeIterInitOverwriting(base, bodyKey, keyTypes, cfg, profiles) ==
  IF base.dt = "Obj" THEN Outcome("false", LBottom, NoType, profiles)
  ELSE
    LET layout == getBaseLayout(base, cfg)
        key == <<bodyKey, base.dt>>
        recorded ==
          IF bodyKey # "null"
            THEN [k \in DOMAIN profiles \cup {key} |->
                    IF k = key THEN layout ELSE profiles[k]]
            ELSE profiles
    IN IF ~vanilla(layout) /\ ~monotype(layout) /\ ~is_struct(layout)
         THEN Outcome("false", layout, NoType, profiles)
         ELSE specializeWith(base, layout, keyTypes, cfg, recorded)

\* bool specializeIterInit(...): bodyKey is the body's block, or "null" when
\* the body is not part of this translation.
specializeIterInit(base, bodyKey, keyTypes, cfg, profiles) ==
  IF base.dt = "Obj" THEN Outcome("false", LBottom, NoType, profiles)
  ELSE
    LET layout == getBaseLayout(base, cfg)
        key == <<bodyKey, base.dt>>
        recorded ==
          IF bodyKey # "null" /\ key \notin DOMAIN profiles
            THEN [k \in DOMAIN profiles \cup {key} |->
                    IF k = key THEN layout ELSE profiles[k]]
            ELSE profiles
    IN IF ~vanilla(layout) /\ ~monotype(layout) /\ ~is_struct(layout)
         THEN Outcome("false", layout, NoType, profiles)
         ELSE specializeWith(base, layout, keyTypes, cfg, recorded)

\* bool specializeIterNext(...).
specializeIterNext(base, bodyKey, cfg, profiles) ==
  IF base.dt = "Obj" THEN Outcome("false", LBottom, NoType, profiles)
  ELSE
    LET key == <<bodyKey, base.dt>>
        hinted == IF key \in DOMAIN profiles
                    THEN profiles[key] \cap base.layout ELSE LBottom
        layout == IF hinted # LBottom THEN hinted ELSE getBaseLayout(base, cfg)
    IN specializeWith(base, layout, "Any", cfg, profiles)

\* The static types a base can have: an object, or a vec, dict or keyset of
\* some layout; without bespoke arrays every array type is vanilla or
\* unrestricted.
BaseTypes(cfg) ==
  {[dt |-> "Obj", layout |-> LTop]} \cup
  { t \in [dt : {"Vec", "Dict", "Keyset"}, layout : Layouts] :
      ~cfg.allowBespoke => t.layout \in {LTop, LVanilla} }

NoProfiles == [k \in {} |-> LBottom]

IcInitial ==
  \E cfg \in IterCfgs, inRegion \in BOOLEAN :
    /\ (cfg.emitBespokeMonotypes => cfg.allowBespoke)
    /\ ~cfg.baseConst /\ ~cfg.withKeys /\ ~cfg.storesUnaligned
    /\ ic = [phase |-> "compiling", cfg |-> cfg, bodyInRegion |-> inRegion,
             iterProfiles |-> NoProfiles, first |-> NoType,
             last |-> [fn |-> "none", base |-> NoType,
                       out |-> Outcome("none", LBottom, NoType, NoProfiles)]]

IcBodyKey == IF ic.bodyInRegion THEN "body" ELSE "null"

\* The array type of the first site of the loop that was specialized.
IcFirst(out) ==
  IF ic.first = NoType /\ out.ret = "true" THEN out.arrType ELSE ic.first

\* An IterInit of the loop is compiled.
IcIterInit ==
  /\ ic.phase = "compiling"
  /\ \E base \in BaseTypes(ic.cfg), keyTypes \in {"Any", "NoTombstone"} :
       LET out == specializeIterInit(base, IcBodyKey, keyTypes, ic.cfg,
                                     ic.iterProfiles)
       IN ic' = [ic EXCEPT !.iterProfiles = out.iterProfiles,
                           !.first = IcFirst(out),
                           !.last = [fn |-> "init", base |-> base, out |-> out]]
  /\ UNCHANGED <<sw, it, eh, dg, tv, sy, nb, mz, ov, sk, sr>>

\* An IterNext of the loop is compiled.
IcIterNext ==
  /\ ic.phase = "compiling"
  /\ \E base \in BaseTypes(ic.cfg) :
       LET out == specializeIterNext(base, IcBodyKey, ic.cfg, ic.iterProfiles)
       IN ic' = [ic EXCEPT !.iterProfiles = out.iterProfiles,
                           !.first = IcFirst(out),
                           !.last = [fn |-> "next", base |-> base, out |-> out]]
  /\ UNCHANGED <<sw, it, eh, dg, tv, sy, nb, mz, ov, sk, sr>>

IterCompileNext == IcIterInit \/ IcIterNext

IterCompileSpecInit ==
  /\ IcInitial
  /\ sw = Idle /\ it = Idle /\ eh = Idle /\ dg = Idle
  /\ tv = Idle /\ sy = Idle /\ nb = Idle
  /\ mz = Idle /\ ov = Idle /\ sk = Idle /\ sr = Idle

SpecIterCompile == IterCompileSpecInit /\ [][IterCompileNext]_vars

\* C4: neither entry point aborts; each returns false exactly when the base
\* is an object, when the layout it judges is none of vanilla, monotype and
\* struct, or when the base cannot have the accessor's array type, and true
\* otherwise.
C4_RefusesNeverAborts ==
  ic.last.fn # "none" =>
    LET out == ic.last.out
        refused ==
          \/ ic.last.base.dt = "Obj"
          \/ out.layout \notin {{"vanilla"}, {"monotype"}, {"struct"}}
          \/ (out.arrType # NoType /\ ~maybe(ic.last.base, out.arrType))
    IN /\ out.ret \in {"true", "false"}
       /\ (out.ret = "false") = refused

\* An IterNext specialized on the hint of an earlier IterInit, over a base
\* whose own type names no single layout.
C4_Witness ==
  /\ ic.last.fn = "next"
  /\ ic.last.out.ret = "true"
  /\ ic.last.base.layout = LTop
  /\ ic.last.out.layout = {"struct"}
  /\ ic.cfg.allowBespoke

\* The layouts on which a site is specialized.
Specializable == {{"vanilla"}, {"monotype"}, {"struct"}}

MaxStack == 2

MaxIterators == 2

\* The throwing sites compiled in one translation.
MaxSites == 2

StackValues == {"?", "a"}

EvalStacks == UNION {[1..n -> StackValues] : n \in 0..MaxStack}

\* The first loop of emitExceptionHandler: the values on top of the stack
\* that the frame state does not know are popped at the throwing site.
RECURSIVE popUnknown(_)
popUnknown(stack) ==
  IF stack = <<>> THEN stack
  ELSE IF stack[Len(stack)] # "?" THEN stack
  ELSE popUnknown(SubSeq(stack, 1, Len(stack) - 1))

\* The ehBlocks vector: the entry block, then one dec-ref block per value
\* left on the stack, bottom first.
ehBlocks(stack) == {SubSeq(stack, 1, n) : n \in 0..Len(stack)}

\* The kill loop that stops one iterator short.
killLoopDoneEarly(i, numIterators) == i + 1 >= numIterators

\* for (auto i = 0U; i < numIterators; ++i): the loop is over.
killLoopDone(i, numIterators) == i >= numIterators

\* CheckNonNull: the taken branch is the null one.
CheckNonNull(exc) == exc # "null"

EhInitial ==
  \E n \in 0..MaxIterators, inl \in BOOLEAN :
    eh = [phase |-> "compile", numIterators |-> n, inlining |-> inl,
          filled |-> {}, sites |-> 0, at |-> <<>>, stack |-> <<>>, exc |-> "null",
          i |-> 0, killed |-> {}, end |-> "none"]

\* emitExceptionHandler is called at a throwing site: the blocks it needs are
\* created, and an exception (or a null, for a C++ exception) arrives there.
EhEmit ==
  /\ eh.phase \in {"compile", "handler", "unwound"}
  /\ eh.sites < MaxSites
  /\ \E stack \in EvalStacks, exc \in {"null", "obj"} :
       eh' = [eh EXCEPT !.phase = "site",
                        !.filled = @ \cup ehBlocks(popUnknown(stack)),
                        !.sites = @ + 1, !.stack = stack, !.exc = exc,
                        !.i = 0, !.killed = {}, !.end = "none"]
  /\ UNCHANGED <<sw, it, ic, dg, tv, sy, nb, mz, ov, sk, sr>>

\* The code at the site: pop the unknown values, jump to the last block.
EhSite ==
  /\ eh.phase = "site"
  /\ eh' = [eh EXCEPT !.phase = "block", !.stack = popUnknown(eh.stack),
                      !.at = popUnknown(eh.stack)]
  /\ UNCHANGED <<sw, it, ic, dg, tv, sy, nb, mz, ov, sk, sr>>

\* A dec-ref block: pop one value, jump to the previous block.
EhDecRef ==
  /\ eh.phase = "block"
  /\ eh.at # <<>>
  /\ eh.at \in eh.filled
  /\ eh' = [eh EXCEPT !.stack = SubSeq(@, 1, Len(@) - 1),
                      !.at = SubSeq(@, 1, Len(@) - 1)]
  /\ UNCHANGED <<sw, it, ic, dg, tv, sy, nb, mz, ov, sk, sr>>

\* The entry block, exception not null: push it, jump to the handler.
EhToHandler ==
  /\ eh.phase = "block"
  /\ eh.at = <<>>
  /\ CheckNonNull(eh.exc)
  /\ eh' = [eh EXCEPT !.phase = "handler", !.stack = Append(@, eh.exc),
                      !.end = "handler"]
  /\ UNCHANGED <<sw, it, ic, dg, tv, sy, nb, mz, ov, sk, sr>>

\* The entry block, exception null: start the kill loop.
EhToKill ==
  /\ eh.phase = "block"
  /\ eh.at = <<>>
  /\ ~CheckNonNull(eh.exc)
  /\ eh' = [eh EXCEPT !.phase = "kill", !.i = 0]
  /\ UNCHANGED <<sw, it, ic, dg, tv, sy, nb, mz, ov, sk, sr>>

\* gen(env, KillIter, IterId{i}, fp(env)).
EhKillIter ==
  /\ eh.phase = "kill"
  /\ ~killLoopDone(eh.i, eh.numIterators)
  /\ eh' = [eh EXCEPT !.killed = @ \cup {eh.i}, !.i = @ + 1]
  /\ UNCHANGED <<sw, it, ic, dg, tv, sy, nb, mz, ov, sk, sr>>

\* endCatchImpl in UnwindOnly mode: EndCatch, or the shared sink of an
\* inlined frame.
EhEndCatch ==
  /\ eh.phase = "kill"
  /\ killLoopDone(eh.i, eh.numIterators)
  /\ eh' = [eh EXCEPT !.phase = "unwound",
                      !.end = IF eh.inlining THEN "endCatchFromInlined"
                                             ELSE "EndCatch"]
  /\ UNCHANGED <<sw, it, ic, dg, tv, sy, nb, mz, ov, sk, sr>>

EhNext ==
  \/ EhEmit \/ EhSite \/ EhDecRef \/ EhToHandler \/ EhToKill
  \/ EhKillIter \/ EhEndCatch

EhSpecInit ==
  /\ EhInitial
  /\ sw = Idle /\ it = Idle /\ ic = Idle /\ dg = Idle
  /\ tv = Idle /\ sy = Idle /\ nb = Idle
  /\ mz = Idle /\ ov = Idle /\ sk = Idle /\ sr = Idle

SpecEh == EhSpecInit /\ [][EhNext]_vars

\* C5: a non-null exception is pushed and control goes to the handler; a null
\* one never reaches the handler, and every iterator of the function has
\* been killed when it goes on to the unwinder.
C5_HandlerOrKillAll ==
  /\ (eh.phase = "handler" => eh.exc = "obj" /\ eh.stack = <<"obj">>)
  /\ (eh.exc = "null" => eh.phase # "handler")
  /\ (eh.phase = "unwound" =>
        /\ eh.exc = "null"
        /\ eh.killed = 0..(eh.numIterators - 1)
        /\ eh.end \in {"EndCatch", "endCatchFromInlined"})

\* A null exception thrown over a non-empty stack in a function with two
\* iterators or more has gone on to EndCatch.
C5_Witness ==
  /\ eh.phase = "unwound"
  /\ eh.numIterators >= 2
  /\ eh.killed = 0..(eh.numIterators - 1)
  /\ eh.end = "EndCatch"

(***************************************************************************)
(*          Dependency graph: the fanout of a class member                 *)
(*                                                                         *)
(* The graph holds "extends" edges between classes, the classes that       *)
(* declare member m, and typing edges from a member node to the nodes that *)
(* depend on it.  A node is a pair: <<class, "m">> for the member of a     *)
(* class, <<name, "fun">> for a function that uses members.                *)
(***************************************************************************)
Classes == {"A", "B", "C"}

Funs == {<<"f", "fun">>, <<"g", "fun">>}

make_member_dep(class) == <<class, "m">>

\* The class hierarchies: every class extends at most one of the others, and
\* no class extends itself, directly or not.
RECURSIVE ancestors(_, _, _)
ancestors(parent, class, fuel) ==
  IF fuel = 0 \/ parent[class] = "none" THEN {}
  ELSE {parent[class]} \cup ancestors(parent, parent[class], fuel - 1)

Hierarchies ==
  { parent \in [Classes -> Classes \cup {"none"}] :
      \A c \in Classes : c \notin ancestors(parent, c, Cardinality(Classes)) }

Chain == [c \in Classes |-> CASE c = "A" -> "none" [] c = "B" -> "A" [] c = "C" -> "B"]

\* The direct dependents of a node, and the classes that extend a class.
dependents(g, node) == {e[2] : e \in {x \in g.ideps : x[1] = node}}

extend_deps(g, class) == {c \in Classes : g.parent[c] = class}

\* The fanout that descends through a redeclaring class as through any other.
RECURSIVE member_fanout_no_stop(_, _, _)
member_fanout_no_stop(g, class, is_root) ==
  {make_member_dep(class)} \cup dependents(g, make_member_dep(class))
    \cup UNION {member_fanout_no_stop(g, d, FALSE) : d \in extend_deps(g, class)}

\* The member in the class and in its descendants down to the first ones that
\* declare it, and the dependents of those that do not stop the descent.
RECURSIVE member_fanout(_, _, _)
member_fanout(g, class, is_root) ==
  IF ~is_root /\ class \in g.declares
    THEN {make_member_dep(class)}
    ELSE {make_member_dep(class)} \cup dependents(g, make_member_dep(class))
           \cup UNION {member_fanout(g, d, FALSE) : d \in extend_deps(g, class)}

\* get_member_fanout: the computed fanout is added to the accumulator.
get_member_fanout(g, class, acc) == acc \cup member_fanout(g, class, TRUE)

DgInitial ==
  \E parent \in Hierarchies, declares \in SUBSET Classes :
    dg = [phase |-> "graph", parent |-> parent, declares |-> declares,
          ideps |-> {}, class |-> "none", acc |-> {}, fanout |-> {}]

\* A typing edge is recorded: a function uses the member of a class.
DgAddIdep ==
  /\ dg.phase \in {"graph", "queried"}
  /\ \E c \in Classes, f \in Funs :
       dg' = [dg EXCEPT !.phase = "graph",
                        !.ideps = @ \cup {<<make_member_dep(c), f>>},
                        !.class = "none", !.acc = {}, !.fanout = {}]
  /\ UNCHANGED <<sw, it, ic, eh, tv, sy, nb, mz, ov, sk, sr>>

\* The fanout of the member of a class is asked for.
DgGetMemberFanout ==
  /\ dg.phase \in {"graph", "queried"}
  /\ \E c \in Classes, acc \in {{}, {<<"f", "fun">>}} :
       dg' = [dg EXCEPT !.phase = "queried", !.class = c, !.acc = acc,
                        !.fanout = get_member_fanout(dg, c, acc)]
  /\ UNCHANGED <<sw, it, ic, eh, tv, sy, nb, mz, ov, sk, sr>>

FanoutNext == DgAddIdep \/ DgGetMemberFanout

FanoutSpecInit ==
  /\ DgInitial
  /\ sw = Idle /\ it = Idle /\ ic = Idle /\ eh = Idle
  /\ tv = Idle /\ sy = Idle /\ nb = Idle
  /\ mz = Idle /\ ov = Idle /\ sk = Idle /\ sr = Idle

SpecFanout == FanoutSpecInit /\ [][FanoutNext]_vars

\* The hierarchy A <- B <- C in which only A and C declare m.
DgOnlyAandC == dg.parent = Chain /\ dg.declares = {"A", "C"}

\* The functions that depend on C::m and on nothing else of the hierarchy,
\* and were not in the accumulator.
DgOnlyOnC ==
  (dependents(dg, <<"C", "m">>) \ dg.acc)
    \ (dependents(dg, <<"A", "m">>) \cup dependents(dg, <<"B", "m">>))

\* C6 as stated: in A <- B <- C with m declared by A and C only, the fanout
\* of A::m holds A::m, B::m and the dependents of B::m, and holds neither
\* C::m nor the dependents of C::m; the fanout of C::m is C::m, its
\* dependents and the accumulator.
C6_ExcludesRedeclared ==
  (DgOnlyAandC /\ dg.phase = "queried") =>
    /\ dg.class = "A" =>
         /\ {<<"A", "m">>, <<"B", "m">>} \subseteq dg.fanout
         /\ dependents(dg, <<"B", "m">>) \subseteq dg.fanout
         /\ <<"C", "m">> \notin dg.fanout
         /\ DgOnlyOnC \cap dg.fanout = {}
    /\ dg.class = "C" =>
         dg.fanout = dg.acc \cup {<<"C", "m">>} \cup dependents(dg, <<"C", "m">>)

\* C6 amended: the fanout of A::m is the accumulator, A::m, B::m and the
\* redeclared C::m themselves, and the dependents of A::m and B::m; the
\* dependents of C::m are not added.  The fanout of C::m is as stated.
C6_StopsAtRedeclared ==
  (DgOnlyAandC /\ dg.phase = "queried") =>
    /\ dg.class = "A" =>
         /\ dg.fanout = dg.acc
              \cup {<<"A", "m">>, <<"B", "m">>, <<"C", "m">>}
              \cup dependents(dg, <<"A", "m">>)
              \cup dependents(dg, <<"B", "m">>)
         /\ DgOnlyOnC \cap dg.fanout = {}
    /\ dg.class = "C" =>
         dg.fanout = dg.acc \cup {<<"C", "m">>} \cup dependents(dg, <<"C", "m">>)

\* The fanout of A::m was computed while f depended on B::m and g on C::m.
C6_Witness ==
  /\ DgOnlyAandC
  /\ dg.phase = "queried"
  /\ dg.class = "A"
  /\ dg.ideps = {<<<<"B", "m">>, <<"f", "fun">>>>, <<<<"C", "m">>, <<"g", "fun">>>>}
  /\ <<"f", "fun">> \in dg.fanout
  /\ <<"g", "fun">> \notin dg.fanout

(***************************************************************************)
(*        The enforceability validator (write_symbol_info/util.ml)         *)
(*                                                                         *)
(* A type is [tag, info, args]: its form, what distinguishes it within the *)
(* form, and its component types.  The accumulator holds the reasons given *)
(* so far (none: the type is valid so far) and the flag                    *)
(* inside_reified_class_generic_position.                                  *)
(***************************************************************************)
Ty(tag, info, args) == [tag |-> tag, info |-> info, args |-> args]

\* The declarations Env.get_class finds: the kind and the type parameters.
ClassNames == {"Plain", "Trait", "Box", "Vec", "Pair", "Missing"}

get_class(name) ==
  CASE name = "Plain" -> [found |-> TRUE, kind |-> "Cclass", tparams |-> <<>>]
    [] name = "Trait" -> [found |-> TRUE, kind |-> "Ctrait", tparams |-> <<>>]
    [] name = "Box" -> [found |-> TRUE, kind |-> "Cclass", tparams |-> <<"Reified">>]
    [] name = "Vec" -> [found |-> TRUE, kind |-> "Cclass", tparams |-> <<"Erased">>]
    [] name = "Pair" ->
         [found |-> TRUE, kind |-> "Cclass", tparams |-> <<"Reified", "Erased">>]
    [] OTHER -> [found |-> FALSE, kind |-> "Cclass", tparams |-> <<>>]

\* Env.get_reified and Env.get_enforceable of the generic parameters in scope.
get_reified(name) ==
  CASE name = "Terased" -> "Erased"
    [] name = "Tsoft" -> "SoftReified"
    [] OTHER -> "Reified"

get_enforceable(name) == name = "Tenforceable"

GenericNames == {"Terased", "Tsoft", "Treified", "Tenforceable"}

\* Type_validator.invalid: the first reasons given stand.
invalid(acc, message) ==
  IF acc.reasons = <<>> THEN [acc EXCEPT !.reasons = <<message>>] ELSE acc

\* method is_wildcard
is_wildcard(ty) == ty.tag = "Twildcard"

\* on_tprim that forgets noreturn.
on_tprimVoidOnly(acc, prim) ==
  IF prim = "Tvoid" THEN invalid(acc, "the void type") ELSE acc

\* method! on_tprim
on_tprim(acc, prim) ==
  CASE prim = "Tvoid" -> invalid(acc, "the void type")
    [] prim = "Tnoreturn" -> invalid(acc, "the noreturn type")
    [] OTHER -> acc

\* method! on_tfun, on_tvar, on_tintersection, on_tclass_ptr
on_tfun(acc) == invalid(acc, "a function type")

on_tvar(acc) == invalid(acc, "an unknown type")

on_tintersection(acc) ==
  invalid(acc, "an intersection type, which is restricted to coeffects")

on_tclass_ptr(acc) == invalid(acc, "a class pointer type")

\* method check_generic, reached from on_tgeneric
check_generic(acc, name) ==
  CASE get_reified(name) = "Erased" ->
         invalid(acc, "an erased generic type parameter")
    [] get_reified(name) = "SoftReified" ->
         invalid(acc, "a soft reified generic type parameter")
    [] get_reified(name) = "Reified" /\ ~get_enforceable(name) ->
         IF acc.inside THEN acc
         ELSE invalid(acc,
                "a reified type parameter that is not marked <<__Enforceable>>")
    [] OTHER -> acc

\* method check_for_wildcards: one reason for each wildcard of the list.
check_for_wildcards(acc, tyl, s) ==
  LET wild == SelectSeq(tyl, is_wildcard)
  IN IF wild = <<>> THEN acc
     ELSE IF acc.reasons # <<>> THEN acc
     ELSE [acc EXCEPT !.reasons =
             [i \in 1..Len(wild) |-> "_ in a " \o s \o " (use mixed instead)"]]

RECURSIVE on_type(_, _)
RECURSIVE fold_on_type(_, _, _)
RECURSIVE on_class_fold2(_, _, _, _)

\* List.fold_left tyl ~f:this#on_type ~init:acc, from position i on.
fold_on_type(acc, tyl, i) ==
  IF i > Len(tyl) THEN acc
  ELSE fold_on_type(on_type(acc, tyl[i]), tyl, i + 1)

\* The fold2 that leaves the flag cleared after a reified argument.
on_class_fold2Resetting(acc, targs, tparams, i) ==
  IF i > Len(targs) THEN acc
  ELSE
    LET targ == targs[i]
        next ==
          IF is_wildcard(targ) THEN
            IF acc.inside
              THEN invalid(acc, "a reified type containing a wildcard (_)")
              ELSE acc
          ELSE IF tparams[i] = "Reified" THEN
            [on_type([acc EXCEPT !.inside = TRUE], targ) EXCEPT !.inside = FALSE]
          ELSE IF acc.inside THEN on_type(acc, targ)
          ELSE invalid(acc, "a type with an erased generic type argument")
    IN on_class_fold2(next, targs, tparams, i + 1)

\* The fold2 that does not visit an erased argument in reified position.
on_class_fold2AcceptingAsIs(acc, targs, tparams, i) ==
  IF i > Len(targs) THEN acc
  ELSE
    LET targ == targs[i]
        next ==
          IF is_wildcard(targ) THEN
            IF acc.inside
              THEN invalid(acc, "a reified type containing a wildcard (_)")
              ELSE acc
          ELSE IF tparams[i] = "Reified" THEN
            [on_type([acc EXCEPT !.inside = TRUE], targ)
               EXCEPT !.inside = acc.inside]
          ELSE IF acc.inside THEN acc
          ELSE invalid(acc, "a type with an erased generic type argument")
    IN on_class_fold2(next, targs, tparams, i + 1)

\* The List.fold2 of on_class over the arguments and the parameters.
on_class_fold2(acc, targs, tparams, i) ==
  IF i > Len(targs) THEN acc
  ELSE
    LET targ == targs[i]
        inside_reified_class_generic_position == acc.inside
        next ==
          IF is_wildcard(targ) THEN
            IF inside_reified_class_generic_position
              THEN invalid(acc, "a reified type containing a wildcard (_)")
              ELSE acc
          ELSE IF tparams[i] = "Reified" THEN
            [on_type([acc EXCEPT !.inside = TRUE], targ)
               EXCEPT !.inside = inside_reified_class_generic_position]
          ELSE IF inside_reified_class_generic_position THEN on_type(acc, targ)
          ELSE invalid(acc, "a type with an erased generic type argument")
    IN on_class_fold2(next, targs, tparams, i + 1)

\* method! on_class
on_class(acc, cls, tyl) ==
  LET tc == get_class(cls)
  IN IF ~tc.found THEN acc
     ELSE IF tc.kind = "Ctrait" THEN invalid(acc, "a trait name")
     ELSE IF tyl = <<>> THEN acc
     ELSE IF Len(tyl) # Len(tc.tparams) THEN acc
     ELSE on_class_fold2(acc, tyl, tc.tparams, 1)

\* method! on_typeconst; for a concrete type constant and an abstract one
\* marked enforceable the inherited method goes on into its type.
on_typeconst(acc, kind, tyl) ==
  CASE kind = "TCConcrete" -> fold_on_type(acc, tyl, 1)
    [] kind = "TCAbstractEnforceable" -> fold_on_type(acc, tyl, 1)
    [] OTHER ->
         invalid(acc, "the abstract type constant because it is not marked <<__Enforceable>>")

\* method! on_newtype, on its name and its "as" constraint
on_newtype(acc, sid, as_cstr) ==
  IF sid = "SupportDyn" THEN on_type(acc, as_cstr)
  ELSE invalid(acc, "a newtype")

\* method! on_alias, on the arguments and the expansion
on_alias(acc, tyl, ty) ==
  IF SelectSeq(tyl, LAMBDA t : ~is_wildcard(t)) = <<>> THEN on_type(acc, ty)
  ELSE invalid(acc, "a type with generics, because generics are erased at runtime")

\* method! on_tunion; the inherited method visits the members.
on_tunion(acc, tyl) ==
  IF tyl = <<>> THEN invalid(acc, "the nothing type")
  ELSE fold_on_type(acc, tyl, 1)

\* method! on_ttuple, on the required elements and the kind of the rest
on_ttuple(acc, t_required, t_extra) ==
  LET acc1 == fold_on_type(acc, t_required, 1)
  IN CASE t_extra \in {"optional", "variadic"} ->
            invalid(acc1, "a tuple type with optional or variadic elements")
       [] t_extra = "splat" -> invalid(acc1, "a tuple type with a splat element")
       [] OTHER -> check_for_wildcards(acc1, t_required, "tuple")

\* method! on_tshape
on_tshape(acc, tyl) ==
  check_for_wildcards(fold_on_type(acc, tyl, 1), tyl, "shape")

\* The dispatch of the visitor on the form of the type.
on_type(acc, ty) ==
  CASE ty.tag = "Tprim" -> on_tprim(acc, ty.info)
    [] ty.tag = "Tfun" -> on_tfun(acc)
    [] ty.tag = "Tvar" -> on_tvar(acc)
    [] ty.tag = "Taccess" -> on_typeconst(acc, ty.info, ty.args)
    [] ty.tag = "Tgeneric" -> check_generic(acc, ty.info)
    [] ty.tag = "Tnewtype" -> on_newtype(acc, ty.info, ty.args[1])
    [] ty.tag = "Tlike" -> on_type(acc, ty.args[1])
    [] ty.tag = "Tclass" -> on_class(acc, ty.info, ty.args)
    [] ty.tag = "Talias" -> on_alias(acc, Tail(ty.args), ty.args[1])
    [] ty.tag = "Tunion" -> on_tunion(acc, ty.args)
    [] ty.tag = "Tintersection" -> on_tintersection(acc)
    [] ty.tag = "Ttuple" -> on_ttuple(acc, ty.args, ty.info)
    [] ty.tag = "Tshape" -> on_tshape(acc, ty.args)
    [] ty.tag = "Tclass_ptr" -> on_tclass_ptr(acc)
    [] OTHER -> acc

\* validate_type and validate_hint: no reification context.
validate_type(ty) == on_type([reasons |-> <<>>, inside |-> FALSE], ty)

\* The types validated: every form without components, the forms with
\* components over those, and classes, shapes and like-types over these.
TyInt == Ty("Tprim", "Tint", <<>>)

TyWildcard == Ty("Twildcard", "_", <<>>)

AtomTypes ==
  {Ty("Tprim", p, <<>>) : p \in {"Tvoid", "Tnoreturn", "Tint"}}
    \cup {Ty(t, "", <<>>) : t \in {"Tfun", "Tvar", "Tintersection", "Tclass_ptr",
                                   "Tunion", "Tshape"}}
    \cup {TyWildcard, Ty("Taccess", "TCAbstract", <<>>)}
    \cup {Ty("Tgeneric", n, <<>>) : n \in GenericNames}
    \cup {Ty("Tclass", c, <<>>) : c \in {"Plain", "Trait", "Missing"}}

UnaryForms ==
  {<<"Taccess", "TCConcrete">>, <<"Taccess", "TCAbstractEnforceable">>,
   <<"Tnewtype", "SupportDyn">>, <<"Tnewtype", "Other">>, <<"Tlike", "">>,
   <<"Tclass", "Box">>, <<"Tclass", "Vec">>, <<"Tclass", "Missing">>,
   <<"Tclass", "Pair">>, <<"Tclass", "Trait">>, <<"Talias", "">>,
   <<"Tunion", "">>, <<"Tshape", "">>, <<"Ttuple", "closed">>,
   <<"Ttuple", "optional">>, <<"Ttuple", "variadic">>, <<"Ttuple", "splat">>}

CompoundTypes ==
  {Ty(f[1], f[2], <<a>>) : f \in UnaryForms, a \in AtomTypes}
    \cup {Ty("Tclass", "Pair", <<a, b>>) :
            a \in AtomTypes, b \in {TyInt, TyWildcard}}
    \cup {Ty("Talias", "", <<a, b>>) :
            a \in AtomTypes, b \in {TyInt, TyWildcard}}

NestedTypes ==
  {Ty(f[1], f[2], <<a>>) :
     f \in {<<"Tclass", "Box">>, <<"Tclass", "Vec">>, <<"Tlike", "">>},
     a \in CompoundTypes}

ValidatedTypes == AtomTypes \cup CompoundTypes \cup NestedTypes

TvInitial == tv = [phase |-> "ready", ty |-> TyInt, reasons |-> <<>>]

\* A type is validated.
TvValidate ==
  /\ tv.phase = "ready"
  /\ \E ty \in ValidatedTypes :
       tv' = [phase |-> "validated", ty |-> ty,
              reasons |-> validate_type(ty).reasons]
  /\ UNCHANGED <<sw, it, ic, eh, dg, sy, nb, mz, ov, sk, sr>>

\* The class types among the validated ones, and the accumulators the class
\* rule is entered with: in or out of reified generic position, with or
\* without a reason given earlier.
ClassTypes == {ty \in ValidatedTypes : ty.tag = "Tclass"}

Accumulators ==
  [reasons : {<<>>, <<"given earlier">>}, inside : BOOLEAN]

\* The visitor reaches a class type and applies on_class to it.
TvOnClass ==
  /\ tv.phase = "ready"
  /\ \E ty \in ClassTypes, acc \in Accumulators :
       tv' = [phase |-> "visited", ty |-> ty, entry |-> acc,
              exit |-> on_class(acc, ty.info, ty.args)]
  /\ UNCHANGED <<sw, it, ic, eh, dg, sy, nb, mz, ov, sk, sr>>

ValidatorNext == TvValidate \/ TvOnClass

ValidatorSpecInit ==
  /\ TvInitial
  /\ sw = Idle /\ it = Idle /\ ic = Idle /\ eh = Idle
  /\ dg = Idle /\ sy = Idle /\ nb = Idle
  /\ mz = Idle /\ ov = Idle /\ sk = Idle /\ sr = Idle

SpecValidator == ValidatorSpecInit /\ [][ValidatorNext]_vars

\* The forms the claim lists, as the outermost form of a type.
ListedForm(ty) ==
  \/ ty.tag = "Tprim" /\ ty.info \in {"Tvoid", "Tnoreturn"}
  \/ ty.tag \in {"Tfun", "Tvar", "Tintersection", "Tclass_ptr"}
  \/ ty.tag = "Taccess" /\ ty.info = "TCAbstract"
  \/ ty.tag = "Tclass" /\ get_class(ty.info).found
       /\ get_class(ty.info).kind = "Ctrait"
  \/ ty.tag = "Tnewtype" /\ ty.info # "SupportDyn"
  \/ ty.tag = "Tunion" /\ ty.args = <<>>
  \/ ty.tag = "Ttuple" /\ ty.info # "closed"
  \/ ty.tag = "Tgeneric" /\ get_reified(ty.info) \in {"Erased", "SoftReified"}
  \/ ty.tag = "Talias" /\ \E i \in 2..Len(ty.args) : ~is_wildcard(ty.args[i])
  \/ ty.tag \in {"Tshape", "Ttuple"}
       /\ \E i \in 1..Len(ty.args) : is_wildcard(ty.args[i])

\* The forms the validator rejects besides: a reified generic parameter not
\* marked enforceable, a class applied to an argument for a parameter that is
\* not reified, and a class applied to a wildcard.
FurtherForm(ty) ==
  \/ ty.tag = "Tgeneric" /\ get_reified(ty.info) = "Reified"
       /\ ~get_enforceable(ty.info)
  \/ /\ ty.tag = "Tclass"
     /\ get_class(ty.info).found
     /\ Len(ty.args) = Len(get_class(ty.info).tparams)
     /\ \E i \in 1..Len(ty.args) :
          \/ is_wildcard(ty.args[i])
          \/ get_class(ty.info).tparams[i] # "Reified"

\* Some type within ty, ty included, has a listed form (or, with further,
\* one of the further forms).
RECURSIVE HasForm(_, _)
HasForm(ty, further) ==
  \/ ListedForm(ty)
  \/ further /\ FurtherForm(ty)
  \/ \E i \in 1..Len(ty.args) : HasForm(ty.args[i], further)

\* Some class within ty is applied to a wildcard.
RECURSIVE HasWildcardArg(_)
HasWildcardArg(ty) ==
  \/ ty.tag = "Tclass" /\ \E i \in 1..Len(ty.args) : is_wildcard(ty.args[i])
  \/ \E i \in 1..Len(ty.args) : HasWildcardArg(ty.args[i])

\* A concrete class applied to arguments, all for reified parameters and all
\* accepted by the validator on their own.
AllReifiedEnforceable(ty) ==
  /\ ty.tag = "Tclass"
  /\ get_class(ty.info).found
  /\ get_class(ty.info).kind = "Cclass"
  /\ ty.args # <<>>
  /\ Len(ty.args) = Len(get_class(ty.info).tparams)
  /\ \A i \in 1..Len(ty.args) :
       /\ get_class(ty.info).tparams[i] = "Reified"
       /\ ~is_wildcard(ty.args[i])
       /\ validate_type(ty.args[i]).reasons = <<>>

\* C7 as stated: the validator rejects exactly the listed forms, each with
\* reasons, and accepts without reasons a concrete class whose arguments are
\* all reified and all enforceable.
C7_RejectsExactlyListed ==
  tv.phase = "validated" =>
    /\ ListedForm(tv.ty) => tv.reasons # <<>>
    /\ tv.reasons # <<>> => HasForm(tv.ty, FALSE)
    /\ AllReifiedEnforceable(tv.ty) => tv.reasons = <<>>

\* C7 amended: every listed form is rejected with reasons; whatever is
\* rejected holds a listed form, a reified generic parameter not marked
\* enforceable, or a class applied to a wildcard or to an argument for a
\* parameter that is not reified; and a concrete class whose arguments are all
\* reified and all enforceable is accepted without reasons when no class
\* within the arguments is applied to a wildcard.
C7_RejectsListedAndFurther ==
  tv.phase = "validated" =>
    /\ ListedForm(tv.ty) => tv.reasons # <<>>
    /\ tv.reasons # <<>> => HasForm(tv.ty, TRUE)
    /\ (AllReifiedEnforceable(tv.ty) /\ ~HasWildcardArg(tv.ty))
         => tv.reasons = <<>>

\* A reified class applied to a like-type of int was accepted.
C7_Witness ==
  /\ tv.phase = "validated"
  /\ tv.ty = Ty("Tclass", "Box", <<Ty("Tlike", "", <<TyInt>>)>>)
  /\ AllReifiedEnforceable(tv.ty)
  /\ tv.reasons = <<>>

\* The class rule was applied to a declared class that is no trait, with as
\* many arguments as the class has parameters.
TvClassApplied ==
  /\ tv.phase = "visited"
  /\ get_class(tv.ty.info).found
  /\ get_class(tv.ty.info).kind = "Cclass"
  /\ tv.ty.args # <<>>
  /\ Len(tv.ty.args) = Len(get_class(tv.ty.info).tparams)

\* C21: after on_class returns the flag inside_reified_class_generic_position
\* has the value it had on entry, whatever the class type and its nesting.
\* The flag is true while the argument of a reified parameter is traversed
\* (a reified generic parameter not marked enforceable is accepted there) and
\* has its prior value again for the next argument (outside reified position
\* the argument of the erased parameter after it is rejected).
C21_FlagRestored ==
  tv.phase = "visited" =>
    /\ tv.exit.inside = tv.entry.inside
    /\ (tv.ty = Ty("Tclass", "Box", <<Ty("Tgeneric", "Treified", <<>>)>>))
         => tv.exit = tv.entry
    /\ (/\ tv.ty = Ty("Tclass", "Pair", <<Ty("Tgeneric", "Treified", <<>>), TyInt>>)
        /\ tv.entry = [reasons |-> <<>>, inside |-> FALSE])
         => tv.exit.reasons = <<"a type with an erased generic type argument">>

\* Inside reified position a class with a reified parameter was applied to a
\* class with a reified parameter, and the flag is still set on return.
C21_Witness ==
  /\ TvClassApplied
  /\ tv.entry.inside
  /\ tv.ty = Ty("Tclass", "Box", <<Ty("Tclass", "Box", <<TyInt>>)>>)
  /\ tv.exit.inside

\* The class rule was applied to the class with one erased parameter and an
\* argument that is no wildcard.
TvErasedArgument ==
  /\ TvClassApplied
  /\ tv.ty.info = "Vec"
  /\ ~is_wildcard(tv.ty.args[1])

\* The class rule was applied with a number of arguments other than the
\* number of parameters.
TvArityMismatch ==
  /\ tv.phase = "visited"
  /\ get_class(tv.ty.info).found
  /\ get_class(tv.ty.info).kind = "Cclass"
  /\ tv.ty.args # <<>>
  /\ Len(tv.ty.args) # Len(get_class(tv.ty.info).tparams)

\* C22 as stated: an argument for an erased parameter met inside reified
\* generic position adds no reason whatever its form, outside it is rejected
\* as a type with an erased generic type argument, and an arity mismatch
\* leaves the accumulator unchanged.
C22_ErasedInsideAddsNoReason ==
  /\ (TvErasedArgument /\ tv.entry.inside) => tv.exit = tv.entry
  /\ (TvErasedArgument /\ ~tv.entry.inside) =>
       tv.exit = invalid(tv.entry, "a type with an erased generic type argument")
  /\ TvArityMismatch => tv.exit = tv.entry

\* C22 amended: an argument for an erased parameter met inside reified
\* generic position is not rejected for being erased but is itself validated
\* in that position, so that the accumulator has the reasons its own form
\* gives (a function type is rejected as a function type); outside it is
\* rejected as a type with an erased generic type argument, and an arity
\* mismatch leaves the accumulator unchanged.
C22_ErasedInsideIsValidated ==
  /\ (TvErasedArgument /\ tv.entry.inside) =>
       /\ tv.exit = on_type(tv.entry, tv.ty.args[1])
       /\ (tv.ty.args[1].tag = "Tfun" /\ tv.entry.reasons = <<>>)
            => tv.exit.reasons = <<"a function type">>
       /\ (tv.ty.args[1].tag = "Tgeneric" /\ tv.ty.args[1].info = "Treified")
            => tv.exit = tv.entry
  /\ (TvErasedArgument /\ ~tv.entry.inside) =>
       tv.exit = invalid(tv.entry, "a type with an erased generic type argument")
  /\ TvArityMismatch => tv.exit = tv.entry

\* Inside reified position the erased parameter was given a function type,
\* and the function type was rejected.
C22_Witness ==
  /\ TvErasedArgument
  /\ tv.entry = [reasons |-> <<>>, inside |-> TRUE]
  /\ tv.ty.args[1].tag = "Tfun"
  /\ tv.exit.reasons = <<"a function type">>

(***************************************************************************)
(*     Symbols at a position: by_nesting and take_best_suggestions         *)
(*                                                                         *)
(* An occurrence is its kind and its span; a span <<l, r>> reaches l       *)
(* characters to the left and r to the right of the position asked about.  *)
(***************************************************************************)
MaxOccurrences == 3

Spans == {<<0, 0>>, <<1, 0>>, <<0, 1>>, <<1, 1>>}

OccurrenceKinds == {"LocalVar", "Method", "Class", "Property", "Function"}

Occurrences == [type_ : OccurrenceKinds, pos : Spans]

\* Pos.contains x y: the span x contains the span y.
Pos_contains(x, y) == x[1] >= y[1] /\ x[2] >= y[2]

\* The order that takes two spans for equal as soon as one contains the other.
by_nestingLoose(x, y) ==
  IF Pos_contains(x.pos, y.pos) \/ Pos_contains(y.pos, x.pos) THEN 0
  ELSE 0 - 1

\* let by_nesting x y
by_nesting(x, y) ==
  IF Pos_contains(x.pos, y.pos)
    THEN IF Pos_contains(y.pos, x.pos) THEN 0 ELSE 1
    ELSE 0 - 1

\* List.take_while rest ~f:(fun x -> by_nesting first x = 0)
RECURSIVE take_while_same(_, _)
take_while_same(first, rest) ==
  IF rest = <<>> THEN <<>>
  ELSE IF by_nesting(first, Head(rest)) = 0
    THEN <<Head(rest)>> \o take_while_same(first, Tail(rest))
  ELSE <<>>

\* let rec take_best_suggestions l
RECURSIVE take_best_suggestions(_)
take_best_suggestions(l) ==
  IF l = <<>> THEN <<>>
  ELSE
    LET first == Head(l)
        rest == Tail(l)
        stop == first.type_ \in {"LocalVar", "Method", "Class"}
    IN IF stop THEN <<first>> \o take_while_same(first, rest)
       ELSE <<first>> \o take_best_suggestions(rest)

\* The lists List.sort ~compare:by_nesting leaves: no occurrence comes
\* before one that it strictly contains.
SortedInnermostFirst(l) ==
  \A i, j \in 1..Len(l) : i < j => by_nesting(l[i], l[j]) # 1

SyInitial ==
  \E n \in 0..MaxOccurrences :
    \E l \in [1..n -> Occurrences] :
      /\ SortedInnermostFirst(l)
      /\ sy = [phase |-> "sorted", symbols |-> l, best |-> <<>>]

\* go_quarantined keeps the best suggestions of the sorted occurrences.
SyTakeBest ==
  /\ sy.phase = "sorted"
  /\ sy' = [sy EXCEPT !.phase = "taken",
                      !.best = take_best_suggestions(sy.symbols)]
  /\ UNCHANGED <<sw, it, ic, eh, dg, tv, nb, mz, ov, sk, sr>>

IdentifyNext == SyTakeBest

IdentifySpecInit ==
  /\ SyInitial
  /\ sw = Idle /\ it = Idle /\ ic = Idle /\ eh = Idle
  /\ dg = Idle /\ tv = Idle /\ nb = Idle
  /\ mz = Idle /\ ov = Idle /\ sk = Idle /\ sr = Idle

SpecIdentify == IdentifySpecInit /\ [][IdentifyNext]_vars

\* The place of the first local variable, method or class of a list, 0 when
\* it has none.
SyStopIdx(l) ==
  LET stops == {i \in 1..Len(l) : l[i].type_ \in {"LocalVar", "Method", "Class"}}
  IN IF stops = {} THEN 0 ELSE CHOOSE i \in stops : \A k \in stops : i <= k

\* The place up to which the occurrences after place j have the span of the
\* occurrence at j.
SyRunEnd(l, j) ==
  CHOOSE k \in j..Len(l) :
    /\ \A m \in (j + 1)..k : l[m].pos = l[j].pos
    /\ (k < Len(l) => l[k + 1].pos # l[j].pos)

SyPair ==
  \E a \in Occurrences, b \in Occurrences :
    sy = [phase |-> "pair", a |-> a, b |-> b, ab |-> 0, ba |-> 0]

\* List.sort ~compare:by_nesting compares the two, either way round.
SyCompare ==
  /\ sy.phase = "pair"
  /\ sy' = [sy EXCEPT !.phase = "compared", !.ab = by_nesting(sy.a, sy.b),
                      !.ba = by_nesting(sy.b, sy.a)]
  /\ UNCHANGED <<sw, it, ic, eh, dg, tv, nb, mz, ov, sk, sr>>

NestingNext == SyCompare

NestingSpecInit ==
  /\ SyPair
  /\ sw = Idle /\ it = Idle /\ ic = Idle /\ eh = Idle
  /\ dg = Idle /\ tv = Idle /\ nb = Idle
  /\ mz = Idle /\ ov = Idle /\ sk = Idle /\ sr = Idle

SpecNesting == NestingSpecInit /\ [][NestingNext]_vars

\* The span of x lies strictly inside the span of y.
StrictlyInside(x, y) == Pos_contains(y.pos, x.pos) /\ ~Pos_contains(x.pos, y.pos)

\* C26: by_nesting ranks a before b (a negative result) exactly when the span
\* of a is strictly inside the span of b; when neither span is strictly
\* inside the other (equal spans, or neither contains the other) the result
\* is 0 both ways; so the two results are never both negative.
C26_BeforeIffStrictlyInside ==
  sy.phase = "compared" =>
    /\ sy.ab < 0 <=> StrictlyInside(sy.a, sy.b)
    /\ sy.ba < 0 <=> StrictlyInside(sy.b, sy.a)
    /\ (~StrictlyInside(sy.a, sy.b) /\ ~StrictlyInside(sy.b, sy.a))
         => sy.ab = 0 /\ sy.ba = 0
    /\ ~(sy.ab < 0 /\ sy.ba < 0)

\* Two occurrences whose spans both hold the position while neither holds
\* the other were compared: each is ranked before the other.
C26_Witness ==
  /\ sy.phase = "compared"
  /\ sy.a.pos = <<1, 0>>
  /\ sy.b.pos = <<0, 1>>
  /\ sy.ab = 0 - 1
  /\ sy.ba = 0 - 1

(***************************************************************************)
(*                The notebook converter (ipynb)                           *)
(*                                                                         *)
(* A string is the sequence of its characters; "LF" and "CR" are the line  *)
(* feed and the carriage return.  A JSON value is kept as far as the       *)
(* converter looks into it: a cell's metadata is absent ("None"), an empty *)
(* object, an object naming a language, an object whose language is no     *)
(* string, or a value that is no object.  Where a JSON value can lack what *)
(* the reader asks of it, its field wf names the first thing it lacks. A   *)
(* result has ok for Ok against Error, and raised for an exception that    *)
(* left the function instead of a result.                                  *)
(***************************************************************************)
MaxLen == 4

MaxChunks == 2

Chars == {"a", "%", "LF", "CR"}

Strings == UNION {[1..n -> Chars] : n \in 0..MaxLen}

Metadata ==
  {"None", "empty_object", "language_hack", "language_python",
   "language_not_string", "not_object"}

is_suffix_newline(str) == str # <<>> /\ str[Len(str)] = "LF"

\* String.split_lines: the lines end at a line feed, the carriage return
\* before it goes with it, and the end of the string ends the last line.
RECURSIVE split_from(_, _, _)
split_from(str, i, line) ==
  IF i > Len(str) THEN IF line = <<>> THEN <<>> ELSE <<line>>
  ELSE IF str[i] = "LF"
    THEN <<IF line # <<>> /\ line[Len(line)] = "CR"
             THEN SubSeq(line, 1, Len(line) - 1) ELSE line>>
           \o split_from(str, i + 1, <<>>)
  ELSE split_from(str, i + 1, Append(line, str[i]))

split_lines(str) == split_from(str, 1, <<>>)

\* String.concat ~sep:"\n"
RECURSIVE concat_lines(_)
concat_lines(lines) ==
  IF lines = <<>> THEN <<>>
  ELSE IF Len(lines) = 1 THEN lines[1]
  ELSE lines[1] \o <<"LF">> \o concat_lines(Tail(lines))

\* let cell_contents_of_source_lines
cell_contents_of_source_lines(source_lines) ==
  concat_lines([i \in 1..Len(source_lines) |->
                  IF is_suffix_newline(source_lines[i])
                    THEN SubSeq(source_lines[i], 1, Len(source_lines[i]) - 1)
                    ELSE source_lines[i]])

\* The classification that fails closed: metadata that cannot be read makes
\* the cell a foreign one.
is_most_likely_hack_closed(cell_bento_metadata, contents, cell_type) ==
  /\ cell_type = "code"
  /\ ~(Len(contents) >= 2 /\ contents[1] = "%" /\ contents[2] = "%")
  /\ cell_bento_metadata \in {"None", "language_hack"}

\* let is_most_likely_hack
is_most_likely_hack(cell_bento_metadata, contents, cell_type) ==
  /\ cell_type = "code"
  /\ ~(Len(contents) >= 2 /\ contents[1] = "%" /\ contents[2] = "%")
  /\ CASE cell_bento_metadata = "None" -> TRUE
       [] cell_bento_metadata = "language_hack" -> TRUE
       [] cell_bento_metadata = "language_python" -> FALSE
       [] OTHER -> TRUE

HackCell(contents, md) ==
  [kind |-> "Hack", cell_type |-> "", contents |-> contents,
   cell_bento_metadata |-> md]

NonHackCell(cell_type, contents, md) ==
  [kind |-> "Non_hack", cell_type |-> cell_type, contents |-> contents,
   cell_bento_metadata |-> md]

\* A cell that stands for an exception raised while a cell is made.
Failure == [kind |-> "Failure", cell_type |-> "", contents |-> <<>>,
            cell_bento_metadata |-> "None"]

\* cell_of_json_exn, within ipynb_of_json: get_object_exn, find_exn,
\* get_array_exn and get_string_exn raise on a cell that is not well formed;
\* a cell_type that is no JSON string reads as "unknown".
cell_of_json_exn(cell_json) ==
  LET contents == cell_contents_of_source_lines(cell_json.source)
      md == cell_json.metadata
      cell_type == IF cell_json.cell_type = "JSON_Null" THEN "unknown"
                   ELSE cell_json.cell_type
  IN IF cell_json.wf # "ok" THEN Failure
     ELSE IF is_most_likely_hack(md, contents, cell_type)
       THEN HackCell(contents, md)
       ELSE NonHackCell(cell_type, contents, md)

\* let ipynb_of_json: try ... with e -> Error (Exn.to_string e)
ipynb_of_json(ipynb_json) ==
  LET cells == [i \in 1..Len(ipynb_json.cells) |->
                  cell_of_json_exn(ipynb_json.cells[i])]
      failed == ipynb_json.wf # "ok"
                  \/ \E i \in 1..Len(cells) : cells[i].kind = "Failure"
  IN IF failed
       THEN [ok |-> FALSE, raised |-> FALSE, cells |-> <<>>,
             kernelspec |-> "kernelspec"]
       ELSE [ok |-> TRUE, raised |-> FALSE, cells |-> cells,
             kernelspec |-> ipynb_json.metadata.kernelspec]

\* The normalization that lets the empty strings through.
RECURSIVE normalize_keep_empty(_, _, _)
normalize_keep_empty(source, i, length) ==
  IF source = <<>> THEN <<>>
  ELSE
    LET str == Head(source)
    IN (IF is_suffix_newline(str) \/ i = length - 1 THEN <<str>>
        ELSE <<Append(str, "LF")>>)
         \o normalize_keep_empty(Tail(source), i + 1, length)

\* The normalization that takes the last two indices for the last one.
RECURSIVE normalize_fromLastTwo(_, _, _)
normalize_fromLastTwo(source, i, length) ==
  IF source = <<>> THEN <<>>
  ELSE
    LET str == Head(source)
    IN (IF str = <<>> THEN <<>>
        ELSE IF is_suffix_newline(str) \/ i >= length - 2 THEN <<str>>
        ELSE <<Append(str, "LF")>>)
         \o normalize_fromLastTwo(Tail(source), i + 1, length)

\* List.filter_mapi of normalize_output_lines_in_source_array, from index i.
RECURSIVE normalize_from(_, _, _)
normalize_from(source, i, length) ==
  IF source = <<>> THEN <<>>
  ELSE
    LET str == Head(source)
    IN (IF str = <<>> THEN <<>>
        ELSE IF is_suffix_newline(str) \/ i = length - 1 THEN <<str>>
        ELSE <<Append(str, "LF")>>)
         \o normalize_from(Tail(source), i + 1, length)

\* let normalize_output_lines_in_source_array
normalize_output_lines_in_source_array(source) ==
  normalize_from(source, 0, Len(source))

\* let make_ipynb_cell
make_ipynb_cell(cell_type, source, cell_bento_metadata) ==
  [wf |-> "ok", cell_type |-> cell_type,
   source |-> normalize_output_lines_in_source_array(source),
   metadata |-> IF cell_bento_metadata = "None" THEN "empty_object"
                ELSE cell_bento_metadata]

\* let ipynb_to_json
ipynb_to_json(doc) ==
  [wf |-> "ok",
   cells |-> [i \in 1..Len(doc.cells) |->
                LET cell == doc.cells[i]
                IN make_ipynb_cell(
                     IF cell.kind = "Hack" THEN "code" ELSE cell.cell_type,
                     split_lines(cell.contents), cell.cell_bento_metadata)],
   metadata |-> [kernelspec |-> doc.kernelspec, orig_nbformat |-> "4"],
   nbformat |-> "4"]

\* let cell_of_chunk
cell_of_chunk(chunk) ==
  IF chunk.chunk_kind = "Hack"
    THEN HackCell(chunk.contents, chunk.cell_bento_metadata)
    ELSE NonHackCell(chunk.chunk_kind, chunk.contents, chunk.cell_bento_metadata)

\* The combination that silently takes the first metadata it finds.
combine_bento_cell_metadata_first(md1, md2) ==
  IF md1 # "None" THEN md1 ELSE md2

\* let combine_bento_cell_metadata_exn: "Failure" when it raises.
combine_bento_cell_metadata_exn(md1, md2) ==
  IF md1 # "None" /\ md2 # "None" /\ md1 # md2 THEN "Failure"
  ELSE IF md1 # "None" THEN md1 ELSE md2

\* let combine_cells_exn
combine_cells_exn(cell1, cell2) ==
  LET md == combine_bento_cell_metadata_exn(cell1.cell_bento_metadata,
                                            cell2.cell_bento_metadata)
  IN IF cell1.kind = "Failure" \/ cell2.kind = "Failure" THEN Failure
     ELSE IF cell1.kind = "Hack" /\ cell2.kind = "Hack" THEN
       IF md = "Failure" THEN Failure
       ELSE HackCell(cell1.contents \o cell2.contents, md)
     ELSE IF cell1.kind = "Non_hack" /\ cell2.kind = "Non_hack"
             /\ cell1.cell_type = cell2.cell_type THEN
       IF md = "Failure" THEN Failure
       ELSE NonHackCell(cell1.cell_type, cell1.contents \o cell2.contents, md)
     ELSE Failure

\* List.reduce_exn ~f:combine_cells_exn of a group that is not empty.
RECURSIVE reduce_exn(_, _)
reduce_exn(acc, cells) ==
  IF cells = <<>> THEN acc
  ELSE reduce_exn(combine_cells_exn(acc, Head(cells)), Tail(cells))

\* List.sort_and_group by the id: the groups by ascending id, the chunks of
\* a group in the order of the list.
sort_and_group(chunks) ==
  LET ids == {chunks[i].id : i \in 1..Len(chunks)}
      group(id) == SelectSeq(chunks, LAMBDA c : c.id = id)
      RECURSIVE groups(_)
      groups(rest) ==
        IF rest = {} THEN <<>>
        ELSE LET id == CHOOSE x \in rest : \A y \in rest : x <= y
             IN <<group(id)>> \o groups(rest \ {id})
  IN groups(ids)

\* The document that loses the empty cell it is owed.
ipynb_of_chunksNoRepair(chunks, kernelspec) ==
  LET grouped == sort_and_group(chunks)
      cells == [i \in 1..Len(grouped) |->
                  reduce_exn(cell_of_chunk(Head(grouped[i])),
                             [j \in 1..(Len(grouped[i]) - 1) |->
                                cell_of_chunk(grouped[i][j + 1])])]
  IN IF \E i \in 1..Len(cells) : cells[i].kind = "Failure"
       THEN [ok |-> FALSE, raised |-> FALSE, cells |-> <<>>,
             kernelspec |-> kernelspec]
       ELSE [ok |-> TRUE, raised |-> FALSE, cells |-> cells,
             kernelspec |-> kernelspec]

\* ipynb_of_chunks with the try taken away: the exception of
\* combine_cells_exn leaves it.
ipynb_of_chunksNoTry(chunks, kernelspec) ==
  LET grouped == sort_and_group(chunks)
      cells == [i \in 1..Len(grouped) |->
                  reduce_exn(cell_of_chunk(Head(grouped[i])),
                             [j \in 1..(Len(grouped[i]) - 1) |->
                                cell_of_chunk(grouped[i][j + 1])])]
  IN IF \E i \in 1..Len(cells) : cells[i].kind = "Failure"
       THEN [ok |-> FALSE, raised |-> TRUE, cells |-> <<>>,
             kernelspec |-> kernelspec]
       ELSE [ok |-> TRUE, raised |-> FALSE,
             cells |-> IF cells = <<>> THEN <<HackCell(<<>>, "None")>> ELSE cells,
             kernelspec |-> kernelspec]

\* let ipynb_of_chunks: try ... with e -> Error (Invalid_input ...), for
\* which ok is FALSE.
ipynb_of_chunks(chunks, kernelspec) ==
  LET grouped == sort_and_group(chunks)
      cells == [i \in 1..Len(grouped) |->
                  reduce_exn(cell_of_chunk(Head(grouped[i])),
                             [j \in 1..(Len(grouped[i]) - 1) |->
                                cell_of_chunk(grouped[i][j + 1])])]
  IN IF \E i \in 1..Len(cells) : cells[i].kind = "Failure"
       THEN [ok |-> FALSE, raised |-> FALSE, cells |-> <<>>,
             kernelspec |-> kernelspec]
       ELSE [ok |-> TRUE, raised |-> FALSE,
             cells |-> IF cells = <<>> THEN <<HackCell(<<>>, "None")>> ELSE cells,
             kernelspec |-> kernelspec]

\* The chunk lists converted: one chunk of any text, or a few short chunks
\* that share ids or not.
ChunkKinds == {"Hack", "code", "markdown"}

LongChunks ==
  [id : {1}, chunk_kind : ChunkKinds, contents : Strings,
   cell_bento_metadata : Metadata]

ShortChunks ==
  [id : {1, 2}, chunk_kind : ChunkKinds, contents : {<<"a">>, <<"%">>},
   cell_bento_metadata : {"None", "language_hack", "language_python"}]

ChunkLists ==
  {<<c>> : c \in LongChunks}
    \cup UNION {[1..n -> ShortChunks] : n \in 0..MaxChunks}

NoDoc ==
  [ok |-> FALSE, raised |-> FALSE, cells |-> <<>>, kernelspec |-> "kernelspec"]

NoJson ==
  [wf |-> "ok", cells |-> <<>>,
   metadata |-> [kernelspec |-> "kernelspec", orig_nbformat |-> "4"],
   nbformat |-> "4"]

NbInitial ==
  \E chunks \in ChunkLists :
    nb = [phase |-> "chunks", chunks |-> chunks, doc |-> NoDoc,
          json |-> NoJson, back |-> NoDoc]

\* The chunks of a file become a document, or an error.
NbOfChunks ==
  /\ nb.phase = "chunks"
  /\ LET doc == ipynb_of_chunks(nb.chunks, "kernelspec")
     IN nb' = [nb EXCEPT !.phase = IF doc.raised THEN "aborted"
                                   ELSE IF doc.ok THEN "doc" ELSE "error",
                         !.doc = doc]
  /\ UNCHANGED <<sw, it, ic, eh, dg, tv, sy, mz, ov, sk, sr>>

\* The document is written as JSON.
NbToJson ==
  /\ nb.phase = "doc"
  /\ nb' = [nb EXCEPT !.phase = "json", !.json = ipynb_to_json(nb.doc)]
  /\ UNCHANGED <<sw, it, ic, eh, dg, tv, sy, mz, ov, sk, sr>>

\* The JSON is read back.
NbOfJson ==
  /\ nb.phase = "json"
  /\ nb' = [nb EXCEPT !.phase = "back", !.back = ipynb_of_json(nb.json)]
  /\ UNCHANGED <<sw, it, ic, eh, dg, tv, sy, mz, ov, sk, sr>>

NotebookNext == NbOfChunks \/ NbToJson \/ NbOfJson

\* The JSON of a notebook that came from elsewhere: a top level that lacks
\* something, or one with at most one cell, well formed or not.
ForeignLines ==
  {<<"a">>, <<"LF">>, <<"%">>, <<"%", "%">>, <<"%", "LF">>, <<"%", "%", "LF">>}

ForeignSources == UNION {[1..n -> ForeignLines] : n \in 0..2}

ForeignCells ==
  [wf : {"ok"}, cell_type : {"code", "markdown", "JSON_Null"},
   source : ForeignSources, metadata : Metadata]
    \cup [wf : {"not_object", "no_cell_type", "no_source", "source_not_array",
                "line_not_string"},
          cell_type : {"code"}, source : {<<>>}, metadata : {"None"}]

ForeignJsons ==
  [wf : {"ok"}, cells : {<<>>} \cup {<<c>> : c \in ForeignCells},
   metadata : {[kernelspec |-> "kernelspec", orig_nbformat |-> "4"]},
   nbformat : {"4"}]
    \cup [wf : {"not_object", "no_cells", "no_metadata", "metadata_not_object",
                "no_kernelspec", "cells_not_array"},
          cells : {<<>>},
          metadata : {[kernelspec |-> "kernelspec", orig_nbformat |-> "4"]},
          nbformat : {"4"}]

NbForeign ==
  \E json \in ForeignJsons :
    nb = [phase |-> "foreign", chunks |-> <<>>, doc |-> NoDoc,
          json |-> json, back |-> NoDoc]

\* The JSON from elsewhere is read: a document, an error, or an exception.
NbReadJson ==
  /\ nb.phase = "foreign"
  /\ LET back == ipynb_of_json(nb.json)
     IN nb' = [nb EXCEPT !.phase = IF back.raised THEN "read_aborted"
                                   ELSE IF back.ok THEN "read"
                                   ELSE "read_error",
                         !.back = back]
  /\ UNCHANGED <<sw, it, ic, eh, dg, tv, sy, mz, ov, sk, sr>>

NotebookEntryNext == NbOfChunks \/ NbToJson \/ NbOfJson \/ NbReadJson

NbEntryInitial == NbInitial \/ NbForeign

NotebookEntrySpecInit ==
  /\ NbEntryInitial
  /\ sw = Idle /\ it = Idle /\ ic = Idle /\ eh = Idle
  /\ dg = Idle /\ tv = Idle /\ sy = Idle
  /\ mz = Idle /\ ov = Idle /\ sk = Idle /\ sr = Idle

SpecNotebookEntry == NotebookEntrySpecInit /\ [][NotebookEntryNext]_vars

\* The source arrays normalized on their own: up to MaxLines lines, empty or
\* not, with a line feed at the end or not.
MaxLines == 3

SourceLines == {<<>>, <<"a">>, <<"a", "LF">>, <<"LF">>, <<"%", "%">>}

SourceArrays == UNION {[1..n -> SourceLines] : n \in 0..MaxLines}

NbSource ==
  \E source \in SourceArrays :
    nb = [phase |-> "source", source |-> source, out |-> <<>>]

\* The source array of a cell is normalized for writing.
NbNormalize ==
  /\ nb.phase = "source"
  /\ nb' = [nb EXCEPT !.phase = "normalized",
                      !.out = normalize_output_lines_in_source_array(nb.source)]
  /\ UNCHANGED <<sw, it, ic, eh, dg, tv, sy, mz, ov, sk, sr>>

NormalizeNext == NbNormalize

NormalizeSpecInit ==
  /\ NbSource
  /\ sw = Idle /\ it = Idle /\ ic = Idle /\ eh = Idle
  /\ dg = Idle /\ tv = Idle /\ sy = Idle
  /\ mz = Idle /\ ov = Idle /\ sk = Idle /\ sr = Idle

SpecNormalize == NormalizeSpecInit /\ [][NormalizeNext]_vars

\* C25: the normalized source array holds no empty string, every string of
\* it but possibly the last ends in a line feed, and its entries are the
\* non-empty lines of the input in their order, each as it was or with one
\* line feed appended.
C25_NormalizedSourceArray ==
  nb.phase = "normalized" =>
    LET kept == SelectSeq(nb.source, LAMBDA l : l # <<>>)
    IN /\ \A k \in 1..Len(nb.out) : nb.out[k] # <<>>
       /\ \A k \in 1..(Len(nb.out) - 1) : is_suffix_newline(nb.out[k])
       /\ Len(nb.out) = Len(kept)
       /\ \A k \in 1..Len(kept) :
            \/ nb.out[k] = kept[k]
            \/ nb.out[k] = Append(kept[k], "LF")

\* An array with an empty string between two lines without a line feed was
\* normalized: the empty string is gone, the first line has a line feed and
\* the last has none.
C25_Witness ==
  /\ nb.phase = "normalized"
  /\ nb.source = << <<"a">>, <<>>, <<"a">> >>
  /\ nb.out = << <<"a", "LF">>, <<"a">> >>

\* The document read from elsewhere is written as JSON again.
NbRewrite ==
  /\ nb.phase = "read"
  /\ nb' = [nb EXCEPT !.phase = "rewritten", !.json = ipynb_to_json(nb.back)]
  /\ UNCHANGED <<sw, it, ic, eh, dg, tv, sy, mz, ov, sk, sr>>

\* The JSON written is read again.
NbReread ==
  /\ nb.phase = "rewritten"
  /\ nb' = [nb EXCEPT !.phase = "reread", !.doc = ipynb_of_json(nb.json)]
  /\ UNCHANGED <<sw, it, ic, eh, dg, tv, sy, mz, ov, sk, sr>>

NotebookRereadNext == NbReadJson \/ NbRewrite \/ NbReread

NotebookRereadSpecInit ==
  /\ NbForeign
  /\ sw = Idle /\ it = Idle /\ ic = Idle /\ eh = Idle
  /\ dg = Idle /\ tv = Idle /\ sy = Idle
  /\ mz = Idle /\ ov = Idle /\ sk = Idle /\ sr = Idle

SpecNotebookReread == NotebookRereadSpecInit /\ [][NotebookRereadNext]_vars

NotebookSpecInit ==
  /\ NbInitial
  /\ sw = Idle /\ it = Idle /\ ic = Idle /\ eh = Idle
  /\ dg = Idle /\ tv = Idle /\ sy = Idle
  /\ mz = Idle /\ ov = Idle /\ sk = Idle /\ sr = Idle

SpecNotebook == NotebookSpecInit /\ [][NotebookNext]_vars

\* A text has a line that is fully empty; it has a line that ends with a
\* carriage return and a line feed.
HasEmptyLine(text) ==
  \E i \in 1..Len(split_lines(text)) : split_lines(text)[i] = <<>>

HasCRLF(text) ==
  \E i \in 1..(Len(text) - 1) : text[i] = "CR" /\ text[i + 1] = "LF"

NonEmptyLines(text) == SelectSeq(split_lines(text), LAMBDA l : l # <<>>)

\* What the second clause of C9 says of cell i once the JSON was read back.
NbEmptyLinesDropped(i) ==
  /\ \A k \in 1..Len(nb.json.cells[i].source) : nb.json.cells[i].source[k] # <<>>
  /\ nb.back.cells[i].contents = concat_lines(NonEmptyLines(nb.doc.cells[i].contents))

\* C9 as stated: a cell text without a line terminator at its end comes back
\* byte for byte (a text with an empty line falls under the second clause);
\* the source array holds no empty string and the text that comes back
\* is the non-empty lines of the original, in their order.
C9_RoundTripIdentical ==
  nb.phase = "back" =>
    /\ Len(nb.back.cells) = Len(nb.doc.cells)
    /\ \A i \in 1..Len(nb.doc.cells) :
         LET text == nb.doc.cells[i].contents
         IN /\ (~is_suffix_newline(text) /\ ~HasEmptyLine(text))
                 => nb.back.cells[i].contents = text
            /\ NbEmptyLinesDropped(i)

\* C9 amended: the text comes back byte for byte when it has no line
\* terminator at its end, no empty line and no line that ends with a
\* carriage return and a line feed; the second clause as stated.
C9_RoundTripWithoutCRLF ==
  nb.phase = "back" =>
    /\ Len(nb.back.cells) = Len(nb.doc.cells)
    /\ \A i \in 1..Len(nb.doc.cells) :
         LET text == nb.doc.cells[i].contents
         IN /\ (~is_suffix_newline(text) /\ ~HasEmptyLine(text) /\ ~HasCRLF(text))
                 => nb.back.cells[i].contents = text
            /\ NbEmptyLinesDropped(i)

\* The text "a", empty line, "a" went to JSON as two entries and came back
\* as two lines.
C9_Witness ==
  /\ nb.phase = "back"
  /\ Len(nb.doc.cells) = 1
  /\ nb.doc.cells[1].contents = <<"a", "LF", "LF", "a">>
  /\ nb.json.cells[1].source = <<<<"a", "LF">>, <<"a">>>>
  /\ nb.back.cells[1].contents = <<"a", "LF", "a">>

\* C10: a document that ipynb_of_chunks returns as Ok has a cell at least;
\* for no chunks at all it is Ok and has one cell, a Hack cell with empty
\* contents and no metadata.
C10_NeverZeroCells ==
  nb.phase # "chunks" =>
    /\ nb.doc.ok => Len(nb.doc.cells) >= 1
    /\ nb.chunks = <<>> =>
         /\ nb.doc.ok
         /\ nb.doc.cells = <<HackCell(<<>>, "None")>>

\* The empty chunk list was converted.
C10_Witness ==
  /\ nb.phase = "doc"
  /\ nb.chunks = <<>>
  /\ nb.doc.ok
  /\ Len(nb.doc.cells) = 1

\* The two chunks of one id that combine_cells_exn is given, as cells.
NbPair ==
  /\ nb.phase \in {"doc", "error", "aborted"}
  /\ Len(nb.chunks) = 2
  /\ nb.chunks[1].id = nb.chunks[2].id

NbCell1 == cell_of_chunk(nb.chunks[1])

NbCell2 == cell_of_chunk(nb.chunks[2])

NbKindsDiffer ==
  \/ NbCell1.kind # NbCell2.kind
  \/ NbCell1.kind = "Non_hack" /\ NbCell1.cell_type # NbCell2.cell_type

NbMetadataClash ==
  /\ NbCell1.cell_bento_metadata # "None"
  /\ NbCell2.cell_bento_metadata # "None"
  /\ NbCell1.cell_bento_metadata # NbCell2.cell_bento_metadata

\* C11: combine_cells_exn raises when the two cells differ in kind (Hack
\* against Non_hack, or two Non_hack of different cell_type) and when both
\* carry metadata that differ, and the conversion then yields no document;
\* otherwise the cell it returns has the kind the two share, the contents of
\* the first followed by the contents of the second, and the first metadata
\* that is present, and it is the one cell of the document.
C11_CombineRaisesOrConcatenates ==
  NbPair =>
    LET combined == combine_cells_exn(NbCell1, NbCell2)
    IN IF NbKindsDiffer \/ NbMetadataClash
         THEN combined = Failure /\ ~nb.doc.ok
         ELSE /\ combined.kind = NbCell1.kind
              /\ combined.cell_type = NbCell1.cell_type
              /\ combined.contents = NbCell1.contents \o NbCell2.contents
              /\ combined.cell_bento_metadata =
                   (IF NbCell1.cell_bento_metadata # "None"
                      THEN NbCell1.cell_bento_metadata
                      ELSE NbCell2.cell_bento_metadata)
              /\ nb.doc.ok
              /\ nb.doc.cells = <<combined>>

\* Two markdown chunks of one id, the second alone with metadata, became
\* one cell.
C11_Witness ==
  /\ NbPair
  /\ nb.phase = "doc"
  /\ nb.chunks[1].chunk_kind = "markdown"
  /\ nb.chunks[1].cell_bento_metadata = "None"
  /\ nb.chunks[2].cell_bento_metadata = "language_python"
  /\ nb.doc.cells =
       <<NonHackCell("markdown", <<"a", "%">>, "language_python")>>

\* The text starts with the two characters of a foreign cell.
HasMagicPrefix(text) == Len(text) >= 2 /\ text[1] = "%" /\ text[2] = "%"

\* C12: a cell read from JSON is a Hack cell exactly when its cell_type is
\* the string "code", its joined text does not start with "%%", and its
\* metadata is missing, no object, without a language, with a language that
\* is no string, or with the language "hack"; any other cell is a Non_hack
\* cell of its cell_type, "unknown" for a cell_type that is no string.
C12_HackExactlyWhen ==
  nb.phase = "read" =>
    /\ Len(nb.back.cells) = Len(nb.json.cells)
    /\ \A i \in 1..Len(nb.json.cells) :
         LET cell_json == nb.json.cells[i]
             cell == nb.back.cells[i]
         IN /\ cell.kind = "Hack" <=>
                 /\ cell_json.cell_type = "code"
                 /\ ~HasMagicPrefix(cell.contents)
                 /\ cell_json.metadata \in
                      {"None", "not_object", "empty_object",
                       "language_not_string", "language_hack"}
            /\ cell.kind # "Hack" =>
                 /\ cell.kind = "Non_hack"
                 /\ cell.cell_type = IF cell_json.cell_type = "JSON_Null"
                                       THEN "unknown" ELSE cell_json.cell_type

\* A code cell whose metadata is no object was read as a Hack cell.
C12_Witness ==
  /\ nb.phase = "read"
  /\ Len(nb.json.cells) = 1
  /\ nb.json.cells[1].cell_type = "code"
  /\ nb.json.cells[1].metadata = "not_object"
  /\ nb.json.cells[1].source = <<<<"%", "LF">>, <<"%">>>>
  /\ nb.back.cells = <<HackCell(<<"%", "LF", "%">>, "not_object")>>

\* Two chunks of one id cannot be combined: their kinds differ, or both
\* carry metadata and the metadata differ.
NbChunksClash ==
  \E i, j \in 1..Len(nb.chunks) :
    /\ i < j
    /\ nb.chunks[i].id = nb.chunks[j].id
    /\ \/ nb.chunks[i].chunk_kind # nb.chunks[j].chunk_kind
       \/ /\ nb.chunks[i].cell_bento_metadata # "None"
          /\ nb.chunks[j].cell_bento_metadata # "None"
          /\ nb.chunks[i].cell_bento_metadata # nb.chunks[j].cell_bento_metadata

\* The JSON lacks something the reader asks of it.
NbJsonMalformed ==
  \/ nb.json.wf # "ok"
  \/ \E i \in 1..Len(nb.json.cells) : nb.json.cells[i].wf # "ok"

NbChunksConverted == nb.phase \in {"doc", "error", "aborted"}

NbJsonRead == nb.phase \in {"read", "read_error", "read_aborted"}

\* What C13 says of ipynb_of_json, and of ipynb_of_chunks where the chunks
\* combine: a failure is an Error, and no exception leaves the function.
NbFailuresAreErrors ==
  /\ NbJsonRead =>
       /\ ~nb.back.raised
       /\ nb.back.ok <=> ~NbJsonMalformed
       /\ nb.phase = IF NbJsonMalformed THEN "read_error" ELSE "read"
  /\ (NbChunksConverted /\ ~NbChunksClash) =>
       nb.doc.ok /\ ~nb.doc.raised /\ nb.phase = "doc"

C30_ClassificationStable ==
  nb.phase = "reread" =>
    /\ nb.doc.ok
    /\ Len(nb.doc.cells) = Len(nb.back.cells)
    /\ \A i \in 1..Len(nb.back.cells) :
         /\ nb.doc.cells[i].kind = nb.back.cells[i].kind
         /\ nb.back.cells[i].kind = "Non_hack" =>
              nb.doc.cells[i].cell_type = nb.back.cells[i].cell_type

\* A code cell whose text is an empty line and then a line of two percent
\* signs was read as a Hack cell, written and read again: it is no Hack cell
\* any more.
C30_Witness ==
  /\ nb.phase = "reread"
  /\ Len(nb.back.cells) = 1
  /\ nb.back.cells[1].kind = "Hack"
  /\ nb.back.cells[1].contents = <<"LF", "%", "%">>
  /\ nb.json.cells[1].source = << <<"%", "%">> >>
  /\ nb.doc.ok
  /\ nb.doc.cells[1].kind = "Non_hack"
  /\ nb.doc.cells[1].cell_type = "code"

(***************************************************************************)
(*        Memoization keyed by the implicit context                        *)
(*                                                                         *)
(* The fixture ic-inaccessible-special-case.php declares the context class *)
(* Base with its subclasses A and B and the memoized functions; the cache  *)
(* they exercise is the one of the runtime.  A call looks its key up, runs *)
(* the body on a miss and stores the result.                               *)
(***************************************************************************)
MaxCalls == 3

\* The context objects: two of class A, one of class B.
Instances == {"a1", "a2", "b1"}

\* Base::name: static::class
name(inst) == IF inst \in {"a1", "a2"} THEN "A" ELSE "B"

\* Base::getInstanceKey: 'KEY' . $this->name()
getInstanceKey(inst) == <<"KEY", name(inst)>>

MemoFunctions == {"memo_kbic", "B::memo_kbic", "memo_inaccessible_sc"}

\* The __Memoize attribute of the function.
MemoMode(fn) ==
  IF fn = "memo_inaccessible_sc" THEN "NotKeyedByICAndLeakIC" ELSE "KeyedByIC"

MemoArgs == {<<1, 2>>, <<3, 4>>}

\* The key that tells the context objects apart instead of their keys.
memo_key_by_instance(fn, args, inst) ==
  IF MemoMode(fn) = "KeyedByIC" THEN <<fn, args, <<"OBJ", inst>>>>
  ELSE <<fn, args, <<>>>>

\* The key of a cache entry: the function, the arguments and, for a
\* function keyed by the implicit context, the key of the active context.
memo_key(fn, args, inst) ==
  IF MemoMode(fn) = "KeyedByIC" THEN <<fn, args, getInstanceKey(inst)>>
  ELSE <<fn, args, <<>>>>

\* main: nothing was called yet.
MzInitial ==
  mz = [phase |-> "run", cache |-> {}, executions |-> 0, log |-> <<>>]

\* ClassContext::start($context, ...) around one call of a memoized
\* function: a hit returns the stored value, a miss runs the body.
MzCall ==
  /\ mz.phase = "run"
  /\ Len(mz.log) < MaxCalls
  /\ \E fn \in MemoFunctions, args \in MemoArgs, inst \in Instances :
       LET key == memo_key(fn, args, inst)
           hit == key \in mz.cache
       IN mz' = [mz EXCEPT
                   !.cache = mz.cache \cup {key},
                   !.executions = IF hit THEN mz.executions
                                  ELSE mz.executions + 1,
                   !.log = Append(mz.log,
                             [fn |-> fn, args |-> args, inst |-> inst,
                              executed |-> ~hit])]
  /\ UNCHANGED <<sw, it, ic, eh, dg, tv, sy, nb, ov, sk, sr>>

MemoNext == MzCall

MemoSpecInit ==
  /\ MzInitial
  /\ sw = Idle /\ it = Idle /\ ic = Idle /\ eh = Idle
  /\ dg = Idle /\ tv = Idle /\ sy = Idle /\ nb = Idle
  /\ ov = Idle /\ sk = Idle /\ sr = Idle

SpecMemo == MemoSpecInit /\ [][MemoNext]_vars

\* Calls i and j are of one function keyed by the context, with the same
\* arguments.
MzSameKeyedCall(i, j) ==
  /\ mz.log[i].fn = mz.log[j].fn
  /\ MemoMode(mz.log[i].fn) = "KeyedByIC"
  /\ mz.log[i].args = mz.log[j].args

\* C14: of the calls of a function keyed by the implicit context, a call
\* with the arguments of an earlier call under a context with the same key
\* (the same object or another) is a cache hit and does not run the body,
\* and a call whose context key no earlier call with these arguments had
\* runs the body; so two such calls under objects with the same key run it
\* once, and under objects with different keys twice.
C14_KeyedByContextKey ==
  \A j \in 1..Len(mz.log) :
    MemoMode(mz.log[j].fn) = "KeyedByIC" =>
      (mz.log[j].executed <=>
         ~\E i \in 1..(j - 1) :
             /\ MzSameKeyedCall(i, j)
             /\ getInstanceKey(mz.log[i].inst) = getInstanceKey(mz.log[j].inst))

\* memo_kbic(1, 2) under two objects of class A and then under one of class
\* B: the body ran for the first and the third call.
C14_Witness ==
  /\ Len(mz.log) = 3
  /\ \A i \in 1..3 : mz.log[i].fn = "memo_kbic" /\ mz.log[i].args = <<1, 2>>
  /\ mz.log[1].inst = "a1" /\ mz.log[2].inst = "a2" /\ mz.log[3].inst = "b1"
  /\ mz.log[1].executed /\ ~mz.log[2].executed /\ mz.log[3].executed
  /\ mz.executions = 2

(***************************************************************************)
(*        overflow2: the check before a multiplication (gd_security.c)     *)
(*                                                                         *)
(* An int is IntBits wide.  The division of C truncates towards zero.      *)
(***************************************************************************)
INT_MAX == MaxInt

CDiv(a, b) ==
  IF (a >= 0) = (b > 0) THEN a \div b
  ELSE 0 - ((0 - a) \div b)

\* The check that lets a product one factor too large through.
overflow2Loose(a, b) ==
  IF a <= 0 \/ b <= 0 THEN 1
  ELSE IF a > CDiv(INT_MAX, b) + 1 THEN 1
  ELSE 0

\* int overflow2(int a, int b)
overflow2(a, b) ==
  IF a <= 0 \/ b <= 0 THEN 1
  ELSE IF a > CDiv(INT_MAX, b) THEN 1
  ELSE 0

\* The caller has two ints.
OvInitial ==
  \E a \in MinInt..MaxInt, b \in MinInt..MaxInt :
    ov = [phase |-> "call", a |-> a, b |-> b, result |-> 0]

\* overflow2(a, b) returns.
OvOverflow2 ==
  /\ ov.phase = "call"
  /\ ov' = [ov EXCEPT !.phase = "returned", !.result = overflow2(ov.a, ov.b)]
  /\ UNCHANGED <<sw, it, ic, eh, dg, tv, sy, nb, mz, sk, sr>>

OverflowNext == OvOverflow2

OverflowSpecInit ==
  /\ OvInitial
  /\ sw = Idle /\ it = Idle /\ ic = Idle /\ eh = Idle
  /\ dg = Idle /\ tv = Idle /\ sy = Idle /\ nb = Idle
  /\ mz = Idle /\ sk = Idle /\ sr = Idle

SpecOverflow == OverflowSpecInit /\ [][OverflowNext]_vars

\* C15: overflow2(a, b) is not zero when a <= 0, when b <= 0 and when
\* a > INT_MAX / b, and zero otherwise; when it is zero the exact product
\* a * b is positive and at most INT_MAX.
C15_ZeroMeansProductFits ==
  ov.phase = "returned" =>
    /\ ov.result # 0 <=>
         (ov.a <= 0 \/ ov.b <= 0 \/ ov.a > CDiv(INT_MAX, ov.b))
    /\ ov.result = 0 => (ov.a * ov.b > 0 /\ ov.a * ov.b <= INT_MAX)

\* The largest product of two equal factors that fits was let through.
C15_Witness ==
  /\ ov.phase = "returned"
  /\ ov.a = ov.b
  /\ ov.a * ov.b <= INT_MAX
  /\ (ov.a + 1) * (ov.b + 1) > INT_MAX
  /\ ov.result = 0

(***************************************************************************)
(*        Skip: skipping an encoded value by its type (format.go)          *)
(*                                                                         *)
(* An encoded value is the tree the decoder reads: its type and, for a     *)
(* struct, a map, a set or a list, the values inside it; the values inside *)
(* a map are its keys and values in turn.  A result is the error Skip      *)
(* returns and the deepest level at which a value was read, the value      *)
(* Skip was called for being at level 1.                                   *)
(***************************************************************************)
MaxNest == 4

DEFAULT_RECURSION_DEPTH == 64

ScalarTypes == {"BOOL", "BYTE", "I16", "I32", "I64", "DOUBLE", "FLOAT", "STRING"}

ContainerTypes == {"STRUCT", "MAP", "SET", "LIST"}

Max(a, b) == IF a >= b THEN a ELSE b

\* func Skip(self Decoder, fieldType Type, maxDepth int) error, with SkipKids
\* for the loops over the fields, the entries and the elements.  The value
\* of a map entry goes to self.Skip(valueType), the method of the decoder,
\* which is SkipDefaultDepth, and the error it returns is dropped.
RECURSIVE Skip(_, _, _)
RECURSIVE SkipKids(_, _, _, _, _)
Skip(v, maxDepth, level) ==
  IF maxDepth <= 0 THEN [err |-> "DEPTH_LIMIT", reached |-> level - 1]
  ELSE IF v.t \in ScalarTypes THEN [err |-> "nil", reached |-> level]
  ELSE IF v.t \in ContainerTypes THEN SkipKids(v, 1, maxDepth, level, level)
  ELSE [err |-> "unable to skip over unknown type id", reached |-> level]

SkipKids(v, i, maxDepth, level, reached) ==
  IF i > Len(v.kids) THEN [err |-> "nil", reached |-> reached]
  ELSE
    LET isValue == v.t = "MAP" /\ i % 2 = 0
        r == IF isValue
               THEN Skip(v.kids[i], DEFAULT_RECURSION_DEPTH, level + 1)
               ELSE Skip(v.kids[i], maxDepth - 1, level + 1)
        m == Max(reached, r.reached)
    IN IF ~isValue /\ r.err # "nil" THEN [err |-> r.err, reached |-> m]
       ELSE SkipKids(v, i + 1, maxDepth, level, m)

\* func SkipDefaultDepth(prot Decoder, typeID Type) error
SkipDefaultDepth(v) == Skip(v, DEFAULT_RECURSION_DEPTH, 1)

\* The values skipped: down a spine of containers, the inner value is a
\* field after an i32, the element of a set, both elements of a list, the
\* key of a map entry or its value; at the end is a value without parts.
SpineSteps == {"STRUCT", "SET", "LIST", "MAP_KEY", "MAP_VALUE"}

Spines == UNION {[1..n -> SpineSteps] : n \in 0..(MaxNest - 1)}

SpineEnds == {"I32", "STRING", "VOID"}

I32Value == [t |-> "I32", kids |-> <<>>]

RECURSIVE SpineValue(_, _)
SpineValue(spine, end) ==
  IF spine = <<>> THEN [t |-> end, kids |-> <<>>]
  ELSE
    LET inner == SpineValue(Tail(spine), end)
    IN CASE Head(spine) = "STRUCT" -> [t |-> "STRUCT", kids |-> <<I32Value, inner>>]
         [] Head(spine) = "SET" -> [t |-> "SET", kids |-> <<inner>>]
         [] Head(spine) = "LIST" -> [t |-> "LIST", kids |-> <<inner, inner>>]
         [] Head(spine) = "MAP_KEY" -> [t |-> "MAP", kids |-> <<inner, I32Value>>]
         [] Head(spine) = "MAP_VALUE" -> [t |-> "MAP", kids |-> <<I32Value, inner>>]

\* The nested levels of a value: one for a value without parts.
RECURSIVE Nest(_)
Nest(v) ==
  IF v.kids = <<>> THEN 1
  ELSE 1 + (CHOOSE n \in {Nest(v.kids[i]) : i \in 1..Len(v.kids)} :
              \A i \in 1..Len(v.kids) : Nest(v.kids[i]) <= n)

NoResult == [err |-> "nil", reached |-> 0]

\* The decoder stands before an encoded value.
SkInitial ==
  \E spine \in Spines, end \in SpineEnds :
    sk = [phase |-> "call", value |-> SpineValue(spine, end), maxDepth |-> 0,
          result |-> NoResult]

\* Skip(self, fieldType, maxDepth)
SkSkip ==
  /\ sk.phase = "call"
  /\ \E maxDepth \in 0..(MaxNest + 1) :
       sk' = [sk EXCEPT !.phase = "returned", !.maxDepth = maxDepth,
                        !.result = Skip(sk.value, maxDepth, 1)]
  /\ UNCHANGED <<sw, it, ic, eh, dg, tv, sy, nb, mz, ov, sr>>

\* SkipDefaultDepth(prot, typeID)
SkSkipDefaultDepth ==
  /\ sk.phase = "call"
  /\ sk' = [sk EXCEPT !.phase = "returned",
                      !.maxDepth = DEFAULT_RECURSION_DEPTH,
                      !.result = SkipDefaultDepth(sk.value)]
  /\ UNCHANGED <<sw, it, ic, eh, dg, tv, sy, nb, mz, ov, sr>>

SkipNext == SkSkip \/ SkSkipDefaultDepth

SkipSpecInit ==
  /\ SkInitial
  /\ sw = Idle /\ it = Idle /\ ic = Idle /\ eh = Idle
  /\ dg = Idle /\ tv = Idle /\ sy = Idle /\ nb = Idle
  /\ mz = Idle /\ ov = Idle /\ sr = Idle

SpecSkip == SkipSpecInit /\ [][SkipNext]_vars

\* C16: Skip reads no value below the level maxDepth, whether the value is
\* a field of a struct, a key or a value of a map or an element of a set or
\* a list, and for a value of more than maxDepth nested levels it returns
\* the depth limit error; SkipDefaultDepth has the limit 64.
C16_SkipIsDepthLimited ==
  sk.phase = "returned" =>
    /\ sk.result.reached <= sk.maxDepth
    /\ Nest(sk.value) > sk.maxDepth => sk.result.err = "DEPTH_LIMIT"

\* Skip with maxDepth 2 was given a map from an i32 to a list of lists of
\* i32, a value of four levels; it read all four and returned no error.
C16_Witness ==
  /\ sk.phase = "returned"
  /\ sk.maxDepth = 2
  /\ sk.value = SpineValue(<<"MAP_VALUE", "LIST", "LIST">>, "I32")
  /\ Nest(sk.value) = 4
  /\ sk.result = [err |-> "nil", reached |-> 4]

(***************************************************************************)
(*        SchemaRegistry: the merged schema and its snapshots              *)
(*                                                                         *)
(* Threads call getMergedSchema and register schema blobs.  base_.mutex_   *)
(* is a lock for many readers or one writer; a step that needs it waits    *)
(* until it is free.  A Schema object is an entry of the heap, the set of  *)
(* the definitions merged into it; mergedSchema_ points to one, or is 0.   *)
(* The registration itself is BaseSchemaRegistry's: it takes the write     *)
(* lock, stores the blob and calls insertCallback_ when one is installed.  *)
(***************************************************************************)
MaxThreads == 2

MaxBlobs == 2

MaxGets == 3

Threads == 1..MaxThreads

\* The blobs by name; the blob 0 has no data in it.
BlobNames == 0..MaxBlobs

BlobData(blob) == IF blob = 0 THEN {} ELSE {blob}

\* schema::detail::readSchema: nothing for a blob without data.
readSchema(data) == IF data = {} THEN <<>> ELSE <<data>>

\* schema::detail::mergeInto
mergeInto(dst, schema) == dst \cup schema

\* The loop over base_.rawSchemas_ of getMergedSchema.
mergeAll(rawSchemas) ==
  UNION {IF readSchema(BlobData(b)) = <<>> THEN {}
         ELSE mergeInto({}, readSchema(BlobData(b))[1]) : b \in rawSchemas}

\* The callback that merges into the Schema in place, copied or not.
insertCallbackInPlace(r, data) ==
  LET heap == IF readSchema(data) = <<>> THEN r.heap
              ELSE [r.heap EXCEPT ![r.mergedSchema] =
                      mergeInto(r.heap[r.mergedSchema], readSchema(data)[1])]
  IN [r EXCEPT !.mergedSchemaAccessed = FALSE, !.heap = heap]

\* base_.insertCallback_, the lambda of getMergedSchema.
insertCallback(r, data) ==
  LET copied == IF r.mergedSchemaAccessed
                  THEN [r EXCEPT !.heap = Append(r.heap, r.heap[r.mergedSchema]),
                                 !.mergedSchema = Len(r.heap) + 1]
                  ELSE r
      heap == IF readSchema(data) = <<>> THEN copied.heap
              ELSE [copied.heap EXCEPT ![copied.mergedSchema] =
                      mergeInto(copied.heap[copied.mergedSchema],
                                readSchema(data)[1])]
  IN [copied EXCEPT !.mergedSchemaAccessed = FALSE, !.heap = heap]

\* return mergedSchema_: the caller has the pointer from now on.
SrReturn(r, t) ==
  [r EXCEPT !.mergedSchemaAccessed = TRUE,
            !.handed = r.handed \cup
                         {[obj |-> r.mergedSchema,
                           contents |-> r.heap[r.mergedSchema],
                           raw |-> r.rawSchemas]},
            !.pc[t] = "idle"]

\* SchemaRegistry::SchemaRegistry: nothing merged, nothing registered.
SrInitial ==
  sr = [phase |-> "run", pc |-> [t \in Threads |-> "idle"],
        arg |-> [t \in Threads |-> 0], readers |-> {}, writer |-> 0,
        rawSchemas |-> {}, mergedSchema |-> 0, heap |-> <<>>,
        mergedSchemaAccessed |-> FALSE, insertCallbackSet |-> FALSE,
        handed |-> {}, gets |-> 0]

\* getMergedSchema: std::shared_lock rlock(base_.mutex_)
SrGetBegin(t) ==
  /\ sr.pc[t] = "idle"
  /\ sr.gets < MaxGets
  /\ sr.writer = 0
  /\ sr' = [sr EXCEPT !.pc[t] = "rlocked", !.readers = sr.readers \cup {t},
                      !.gets = sr.gets + 1]
  /\ UNCHANGED <<sw, it, ic, eh, dg, tv, sy, nb, mz, ov, sk>>

\* getMergedSchema: the schema is there, return it under the read lock.
SrGetFastHit(t) ==
  /\ sr.pc[t] = "rlocked"
  /\ sr.mergedSchema # 0
  /\ sr' = [SrReturn(sr, t) EXCEPT !.readers = sr.readers \ {t}]
  /\ UNCHANGED <<sw, it, ic, eh, dg, tv, sy, nb, mz, ov, sk>>

\* getMergedSchema: the schema is not there, rlock.unlock()
SrGetFastMiss(t) ==
  /\ sr.pc[t] = "rlocked"
  /\ sr.mergedSchema = 0
  /\ sr' = [sr EXCEPT !.pc[t] = "unlocked", !.readers = sr.readers \ {t}]
  /\ UNCHANGED <<sw, it, ic, eh, dg, tv, sy, nb, mz, ov, sk>>

\* getMergedSchema: std::unique_lock wlock(base_.mutex_)
SrGetLock(t) ==
  /\ sr.pc[t] = "unlocked"
  /\ sr.writer = 0 /\ sr.readers = {}
  /\ sr' = [sr EXCEPT !.pc[t] = "wlocked", !.writer = t]
  /\ UNCHANGED <<sw, it, ic, eh, dg, tv, sy, nb, mz, ov, sk>>

\* getMergedSchema: another thread merged in between, return its schema.
SrGetSlowHit(t) ==
  /\ sr.pc[t] = "wlocked"
  /\ sr.mergedSchema # 0
  /\ sr' = [SrReturn(sr, t) EXCEPT !.writer = 0]
  /\ UNCHANGED <<sw, it, ic, eh, dg, tv, sy, nb, mz, ov, sk>>

\* getMergedSchema: make the Schema, merge the blobs, install the callback
\* and return.
SrGetMerge(t) ==
  /\ sr.pc[t] = "wlocked"
  /\ sr.mergedSchema = 0
  /\ LET made == [sr EXCEPT !.heap = Append(sr.heap, mergeAll(sr.rawSchemas)),
                            !.mergedSchema = Len(sr.heap) + 1,
                            !.insertCallbackSet = TRUE]
     IN sr' = [SrReturn(made, t) EXCEPT !.writer = 0]
  /\ UNCHANGED <<sw, it, ic, eh, dg, tv, sy, nb, mz, ov, sk>>

\* A registration takes the write lock for a blob not yet registered.
SrRegisterBegin(t) ==
  /\ sr.pc[t] = "idle"
  /\ sr.writer = 0 /\ sr.readers = {}
  /\ \E blob \in BlobNames \ sr.rawSchemas :
       sr' = [sr EXCEPT !.pc[t] = "registering", !.writer = t, !.arg[t] = blob]
  /\ UNCHANGED <<sw, it, ic, eh, dg, tv, sy, nb, mz, ov, sk>>

\* The registration stores the blob, calls insertCallback_ when it is
\* installed, and gives the lock back.
SrRegister(t) ==
  /\ sr.pc[t] = "registering"
  /\ LET stored == [sr EXCEPT !.rawSchemas = sr.rawSchemas \cup {sr.arg[t]},
                              !.pc[t] = "idle", !.writer = 0]
     IN sr' = IF sr.insertCallbackSet
                THEN insertCallback(stored, BlobData(sr.arg[t]))
                ELSE stored
  /\ UNCHANGED <<sw, it, ic, eh, dg, tv, sy, nb, mz, ov, sk>>

SchemaNext ==
  \E t \in Threads :
    \/ SrGetBegin(t)
    \/ SrGetFastHit(t)
    \/ SrGetFastMiss(t)
    \/ SrGetLock(t)
    \/ SrGetSlowHit(t)
    \/ SrGetMerge(t)
    \/ SrRegisterBegin(t)
    \/ SrRegister(t)

SchemaSpecInit ==
  /\ SrInitial
  /\ sw = Idle /\ it = Idle /\ ic = Idle /\ eh = Idle
  /\ dg = Idle /\ tv = Idle /\ sy = Idle /\ nb = Idle
  /\ mz = Idle /\ ov = Idle /\ sk = Idle

SpecSchema == SchemaSpecInit /\ [][SchemaNext]_vars

\* C17: a snapshot that getMergedSchema returned still has the contents it
\* had when it was returned, whatever was registered since (a registration
\* after it merges into a copy), and it had the data of every blob
\* registered before it was returned.
C17_SnapshotsAreImmutable ==
  \A h \in sr.handed :
    /\ sr.heap[h.obj] = h.contents
    /\ \A b \in h.raw : BlobData(b) \subseteq h.contents

\* A snapshot with the blob 1 was returned, the blob 2 was registered into
\* a copy, and the copy was returned as well.
C17_Witness ==
  /\ \E h \in sr.handed : h.contents = {1} /\ h.obj # sr.mergedSchema
  /\ \E h \in sr.handed : h.contents = {1, 2} /\ h.obj = sr.mergedSchema
  /\ sr.rawSchemas = {1, 2}

(***************************************************************************)
(*            Exception delivery: emitHandleException                      *)
(*                                                                         *)
(* A throwing site is the frame state the lowering finds (a stublogue or   *)
(* an ordinary frame, inlined or not, with so many values on the stack),   *)
(* the catch mode and the side-entry flag the caller passes, and the       *)
(* handler offset findExceptionHandler finds for the site.  The outcome is *)
(* the IR emitted, one record per instruction or per call into another     *)
(* lowering routine.                                                       *)
(***************************************************************************)
kInvalidOffset == 0 - 1

\* The catch modes: the two the lowering tells apart and any other.
CatchModes == {"UnwindOnly", "LocalsDecRefd", "Other"}

\* endCatchImpl that tears the frame down in every mode.
endCatchImplAlwaysFull(x, mode) ==
  IF x.inlining THEN << [op |-> "endCatchFromInlined", mode |-> mode] >>
  ELSE << [op |-> "EndCatch", mode |-> mode, frameMode |-> "Phplogue",
           teardown |-> "Full"] >>

\* void endCatchImpl(env, mode, exc, vmspOffset)
endCatchImpl(x, mode) ==
  IF x.inlining THEN << [op |-> "endCatchFromInlined", mode |-> mode] >>
  ELSE << [op |-> "EndCatch", mode |-> mode, frameMode |-> "Phplogue",
           teardown |-> IF mode = "LocalsDecRefd" THEN "None" ELSE "Full"] >>

\* void emitHandleException(env, mode, exc, vmspOffset, sideEntry)
emitHandleException(x) ==
  IF x.stublogue
    THEN << [op |-> "EndCatch", mode |-> "UnwindOnly",
             frameMode |-> "Stublogue", teardown |-> "NA"] >>
  ELSE IF x.mode = "UnwindOnly" /\ x.ehOffset # kInvalidOffset
    THEN << [op |-> "emitExceptionHandler", ehOffset |-> x.ehOffset] >>
  ELSE (IF x.sideEntry
          THEN << [op |-> "StUnwinderExn"], [op |-> "StVMFP"],
                  [op |-> "StVMPC"], [op |-> "StVMReturnAddr"] >>
          ELSE <<>>)
       \o endCatchImpl(x, x.mode)

\* The throwing sites: the callers keep to the assertions of
\* emitHandleException.
HxInitial ==
  \E stub \in BOOLEAN, inl \in BOOLEAN, mode \in CatchModes,
     side \in BOOLEAN, off \in {kInvalidOffset} \cup 1..MaxSites,
     depth \in 0..MaxStack, exc \in {"obj", "any"} :
    /\ stub => ~inl /\ mode = "UnwindOnly" /\ ~side
    /\ mode = "LocalsDecRefd" => depth = 0
    /\ side => exc = "obj"
    /\ eh = [phase |-> "throwing", stublogue |-> stub, inlining |-> inl,
             mode |-> mode, sideEntry |-> side, ehOffset |-> off,
             depth |-> depth, exc |-> exc, ir |-> <<>>]

\* The site is lowered.
HxEmitHandleException ==
  /\ eh.phase = "throwing"
  /\ eh' = [eh EXCEPT !.phase = "lowered", !.ir = emitHandleException(eh)]
  /\ UNCHANGED <<sw, it, ic, dg, tv, sy, nb, mz, ov, sk, sr>>

HandleExceptionNext == HxEmitHandleException

HandleExceptionSpecInit ==
  /\ HxInitial
  /\ sw = Idle /\ it = Idle /\ ic = Idle /\ dg = Idle
  /\ tv = Idle /\ sy = Idle /\ nb = Idle
  /\ mz = Idle /\ ov = Idle /\ sk = Idle /\ sr = Idle

SpecHandleException == HandleExceptionSpecInit /\ [][HandleExceptionNext]_vars

\* The EndCatch instructions emitted for the site.
HxEndCatches == SelectSeq(eh.ir, LAMBDA i : i.op = "EndCatch")

\* The site was lowered to the in-unit handler.
HxUsesHandler ==
  \E p \in 1..Len(eh.ir) : eh.ir[p].op = "emitExceptionHandler"

\* What the claim has for a site outside a stublogue: the in-unit handler
\* only in unwind-only mode, and otherwise one EndCatch for an ordinary frame
\* with teardown None exactly in the locals-already-decremented mode, which
\* has an empty stack, and Full in the other modes.
HxOrdinaryFrame ==
  /\ HxUsesHandler => eh.mode = "UnwindOnly"
  /\ ~HxUsesHandler =>
       /\ Len(HxEndCatches) = 1
       /\ HxEndCatches[1].frameMode = "Phplogue"
       /\ HxEndCatches[1].mode = eh.mode
       /\ HxEndCatches[1].teardown = "None" <=> eh.mode = "LocalsDecRefd"
       /\ HxEndCatches[1].teardown = "Full" <=> eh.mode # "LocalsDecRefd"
       /\ HxEndCatches[1].teardown = "None" => eh.depth = 0

\* What the claim has for a stublogue: unwind-only, one EndCatch with
\* teardown NA, whatever handler the site has.
HxStubFrame ==
  /\ eh.mode = "UnwindOnly"
  /\ eh.ir = << [op |-> "EndCatch", mode |-> "UnwindOnly",
                 frameMode |-> "Stublogue", teardown |-> "NA"] >>

\* C24 as stated: every site outside a stublogue that does not go to an
\* in-unit handler gets an EndCatch with the teardown of its mode.
C24_ModesToUnwindAction ==
  eh.phase = "lowered" =>
    IF eh.stublogue THEN HxStubFrame ELSE HxOrdinaryFrame

\* C24 amended: as stated for a site that is not in an inlined function; in
\* an inlined function the site that does not go to an in-unit handler gets
\* no EndCatch, the exception is handed to endCatchFromInlined with its mode.
C24_ModesToUnwindActionUnlessInlined ==
  eh.phase = "lowered" =>
    IF eh.stublogue THEN HxStubFrame
    ELSE IF ~eh.inlining THEN HxOrdinaryFrame
    ELSE /\ HxUsesHandler <=> (eh.mode = "UnwindOnly" /\ eh.ehOffset # kInvalidOffset)
         /\ HxEndCatches = <<>>
         /\ ~HxUsesHandler =>
              eh.ir[Len(eh.ir)] = [op |-> "endCatchFromInlined", mode |-> eh.mode]

\* A site in locals-already-decremented mode of an ordinary frame that has a
\* handler was lowered to an EndCatch without teardown.
C24_Witness ==
  /\ eh.phase = "lowered"
  /\ ~eh.stublogue
  /\ ~eh.inlining
  /\ eh.mode = "LocalsDecRefd"
  /\ eh.ehOffset # kInvalidOffset
  /\ Len(HxEndCatches) = 1
  /\ HxEndCatches[1].teardown = "None"

(***************************************************************************)
(*     Names of the symbol index: split_name, make_qname (util.ml)         *)
(*                                                                         *)
(* A name is the sequence of its characters.  A NamespaceQName key is the  *)
(* list of the names of its links, the innermost first: the key of a name  *)
(* without parent has one entry, and the key with a parent is its own name *)
(* before the key of the parent.  A QName key is written the same way.     *)
(***************************************************************************)
MaxName == 5

NsSep == "\\"

NameChars == {"a", "b", NsSep}

\* The names keyed: declarations and namespaces have a name that is not empty.
Names == UNION {[1..n -> NameChars] : n \in 1..MaxName}

\* The places of the namespace separator in a name.
SepPlaces(str) == {i \in 1..Len(str) : str[i] = NsSep}

Greatest(S) == CHOOSE i \in S : \A k \in S : k <= i

Least(S) == CHOOSE i \in S : \A k \in S : i <= k

\* split_name that splits at the first separator.
split_nameFirst(str) ==
  IF SepPlaces(str) = {} THEN [some |-> FALSE, parent |-> <<>>, name |-> <<>>]
  ELSE
    LET pos == Least(SepPlaces(str))
        leaf == SubSeq(str, pos + 1, Len(str))
        parent_namespace == SubSeq(str, 1, pos - 1)
    IN IF parent_namespace = <<>> \/ leaf = <<>>
         THEN [some |-> FALSE, parent |-> <<>>, name |-> <<>>]
         ELSE [some |-> TRUE, parent |-> parent_namespace, name |-> leaf]

\* let split_name: String.rindex finds the last separator.
split_name(str) ==
  IF SepPlaces(str) = {} THEN [some |-> FALSE, parent |-> <<>>, name |-> <<>>]
  ELSE
    LET pos == Greatest(SepPlaces(str))
        leaf == SubSeq(str, pos + 1, Len(str))
        parent_namespace == SubSeq(str, 1, pos - 1)
    IN IF parent_namespace = <<>> \/ leaf = <<>>
         THEN [some |-> FALSE, parent |-> <<>>, name |-> <<>>]
         ELSE [some |-> TRUE, parent |-> parent_namespace, name |-> leaf]

\* Utils.strip_ns: a separator at the front of the name is removed.
strip_ns(str) ==
  IF str # <<>> /\ str[1] = NsSep THEN Tail(str) ELSE str

\* let make_name
make_name(str) == strip_ns(str)

\* let rec make_namespaceqname
RECURSIVE make_namespaceqname(_)
make_namespaceqname(ns) ==
  LET split == split_name(ns)
  IN IF ~split.some THEN <<make_name(ns)>>
     ELSE <<make_name(split.name)>> \o make_namespaceqname(split.parent)

\* let make_qname
make_qname(qname) ==
  LET split == split_name(qname)
  IN IF ~split.some THEN <<make_name(qname)>>
     ELSE <<make_name(split.name)>> \o make_namespaceqname(split.parent)

QnInitial ==
  \E str \in Names :
    tv = [phase |-> "name", qname |-> str,
          split |-> [some |-> FALSE, parent |-> <<>>, name |-> <<>>],
          key |-> <<>>, nskey |-> <<>>]

\* A fact key is made for the name, as a qualified name and as a namespace.
QnMakeQname ==
  /\ tv.phase = "name"
  /\ tv' = [tv EXCEPT !.phase = "keyed", !.split = split_name(tv.qname),
                      !.key = make_qname(tv.qname),
                      !.nskey = make_namespaceqname(tv.qname)]
  /\ UNCHANGED <<sw, it, ic, eh, dg, sy, nb, mz, ov, sk, sr>>

QnameNext == QnMakeQname

QnameSpecInit ==
  /\ QnInitial
  /\ sw = Idle /\ it = Idle /\ ic = Idle /\ eh = Idle
  /\ dg = Idle /\ sy = Idle /\ nb = Idle
  /\ mz = Idle /\ ov = Idle /\ sk = Idle /\ sr = Idle

SpecQname == QnameSpecInit /\ [][QnameNext]_vars

\* The names of a key from the outermost parent to the leaf.
QnChain(key) == [i \in 1..Len(key) |-> key[Len(key) + 1 - i]]

\* The names of a chain put together again with separators between them.
RECURSIVE QnJoin(_)
QnJoin(chain) ==
  IF chain = <<>> THEN <<>>
  ELSE IF Len(chain) = 1 THEN chain[1]
  ELSE chain[1] \o <<NsSep>> \o QnJoin(Tail(chain))

\* The components of a name: the pieces between its separators that are not
\* empty, in their order.
RECURSIVE QnPieces(_, _, _)
QnPieces(str, i, piece) ==
  IF i > Len(str) THEN IF piece = <<>> THEN <<>> ELSE <<piece>>
  ELSE IF str[i] = NsSep
    THEN (IF piece = <<>> THEN <<>> ELSE <<piece>>) \o QnPieces(str, i + 1, <<>>)
  ELSE QnPieces(str, i + 1, Append(piece, str[i]))

QnComponents(str) == QnPieces(str, 1, <<>>)

\* What the claim says of split_name.
QnSplitName ==
  LET str == tv.qname
      places == SepPlaces(str)
      none ==
        \/ places = {}
        \/ Greatest(places) = 1
        \/ Greatest(places) = Len(str)
  IN /\ tv.split.some <=> ~none
     /\ tv.split.some =>
          /\ tv.split.parent \o <<NsSep>> \o tv.split.name = str
          /\ SepPlaces(tv.split.name) = {}
          /\ tv.split.parent # <<>>
          /\ tv.split.name # <<>>

\* The name has a piece between two separators, or after the last one, that
\* is empty: it ends in a separator or has two separators in a row after its
\* first character.
QnHasEmptyComponent(str) ==
  \/ str # <<>> /\ str[Len(str)] = NsSep
  \/ \E i \in 2..(Len(str) - 1) : str[i] = NsSep /\ str[i + 1] = NsSep
  \/ Len(str) >= 2 /\ str[1] = NsSep /\ str[2] = NsSep

\* C27 as stated: split_name answers None without separator or with an empty
\* part before or after the last separator, and otherwise the two parts that
\* the separator joins to the input, the leaf without separator; the keys
\* are built for every name, and their names from the outermost parent to
\* the leaf are the components of the input in their order.
C27_ChainIsComponents ==
  tv.phase = "keyed" =>
    /\ QnSplitName
    /\ QnChain(tv.key) = QnComponents(tv.qname)
    /\ QnChain(tv.nskey) = QnComponents(tv.qname)

\* C27 amended: split_name as stated; the keys are built for every name with
\* at most one link per separator and one more; their names from the
\* outermost parent to the leaf, joined by separators, give the input without
\* a separator at its front, and every name but the outermost is free of
\* separators and not empty; they are the components of the input when no
\* component of the input is empty.
C27_ChainJoinsToInput ==
  tv.phase = "keyed" =>
    /\ QnSplitName
    /\ tv.key = tv.nskey
    /\ Len(tv.key) <= Cardinality(SepPlaces(tv.qname)) + 1
    /\ QnJoin(QnChain(tv.key)) = strip_ns(tv.qname)
    /\ \A i \in 1..(Len(tv.key) - 1) :
         tv.key[i] # <<>> /\ SepPlaces(tv.key[i]) = {}
    /\ ~QnHasEmptyComponent(tv.qname) =>
         QnChain(tv.key) = QnComponents(tv.qname)

\* The key of a name of two components with a separator at its front has
\* two links, the outermost without the separator.
C27_Witness ==
  /\ tv.phase = "keyed"
  /\ tv.qname = <<NsSep, "a", NsSep, "b", "a">>
  /\ tv.split.some
  /\ tv.split.parent = <<NsSep, "a">>
  /\ QnChain(tv.key) = << <<"a">>, <<"b", "a">> >>

(***************************************************************************)
(*      Exception delivery: the shared dec-ref blocks of one handler       *)
(*                                                                         *)
(* The blocks of one handler offset as the IR builder keeps them: the      *)
(* entry block is block 1 and every other block is numbered as it is       *)
(* defined.  decRefBlocks is the table behind getEHDecRefBlock and         *)
(* setEHDecRefBlock, one record [prev, value, block] per entry; code holds *)
(* the blocks that are not empty, each with the stack slot its popDecRef   *)
(* releases and the block it jumps to.  A run follows the jumps from a     *)
(* site and logs the slots released.                                       *)
(***************************************************************************)
EntryBlock == 1

NoBlock == 0

\* The lookup that takes the first block behind prev, whatever its value.
getEHDecRefBlockByPrev(decRefBlocks, prev, value) ==
  LET found == {e \in decRefBlocks : e.prev = prev}
  IN IF found = {} THEN NoBlock ELSE (CHOOSE e \in found : TRUE).block

\* env.irb->getEHDecRefBlock(prev, value)
getEHDecRefBlock(decRefBlocks, prev, value) ==
  LET found == {e \in decRefBlocks : e.prev = prev /\ e.value = value}
  IN IF found = {} THEN NoBlock ELSE (CHOOSE e \in found : TRUE).block

\* The loop of emitExceptionHandler that fills ehBlocks: slot i of the stack
\* gets the block the table has for (ehBlocks.back(), value), or a new one.
RECURSIVE collectEhBlocks(_, _, _, _)
collectEhBlocks(decRefBlocks, stack, i, blocks) ==
  IF i > Len(stack) THEN [decRefBlocks |-> decRefBlocks, ehBlocks |-> blocks]
  ELSE
    LET prev == blocks[Len(blocks)]
        value == stack[i]
        block == getEHDecRefBlock(decRefBlocks, prev, value)
        newBlock == Cardinality(decRefBlocks) + 2
    IN IF block # NoBlock
         THEN collectEhBlocks(decRefBlocks, stack, i + 1, Append(blocks, block))
         ELSE collectEhBlocks(
                decRefBlocks \cup {[prev |-> prev, value |-> value,
                                    block |-> newBlock]},
                stack, i + 1, Append(blocks, newBlock))

\* The loop that pops the remaining stack items via shared blocks, and the
\* entry block after it: a jump to the block on top of ehBlocks, and, if the
\* block is empty, its code; the emission returns at the first block that
\* has code already.
RECURSIVE emitEhBlocks(_, _)
emitEhBlocks(code, blocks) ==
  LET block == blocks[Len(blocks)]
  IN IF \E c \in code : c.block = block THEN code
     ELSE IF Len(blocks) = 1
       THEN code \cup {[block |-> block, pops |-> 0, next |-> NoBlock]}
     ELSE emitEhBlocks(
            code \cup {[block |-> block, pops |-> Len(blocks) - 1,
                        next |-> blocks[Len(blocks) - 1]]},
            SubSeq(blocks, 1, Len(blocks) - 1))

EhbInitial ==
  eh = [phase |-> "compile", decRefBlocks |-> {}, code |-> {}, sites |-> 0,
        uses |-> {}, fresh |-> {}, live |-> <<>>, stack |-> <<>>,
        at |-> NoBlock, released |-> <<>>]

\* emitExceptionHandler is called at one more throwing site of the handler:
\* its blocks are looked up or defined and the code it needs is emitted.
EhbEmit ==
  /\ eh.phase \in {"compile", "handler"}
  /\ eh.sites < MaxSites
  /\ \E stack \in EvalStacks :
       LET rest == popUnknown(stack)
           got == collectEhBlocks(eh.decRefBlocks, rest, 1, <<EntryBlock>>)
           code == emitEhBlocks(eh.code, got.ehBlocks)
       IN eh' = [eh EXCEPT
                   !.phase = "site", !.decRefBlocks = got.decRefBlocks,
                   !.code = code, !.sites = @ + 1,
                   !.uses = @ \cup {<<got.ehBlocks[i + 1], SubSeq(rest, 1, i)>> :
                                      i \in 1..Len(rest)},
                   !.fresh = {c.block : c \in code \ eh.code},
                   !.live = stack, !.stack = stack,
                   !.at = got.ehBlocks[Len(got.ehBlocks)],
                   !.released = <<>>]
  /\ UNCHANGED <<sw, it, ic, dg, tv, sy, nb, mz, ov, sk, sr>>

\* An exception is thrown at the site: the code of the site releases the
\* unknown values on top of the stack and jumps to its last block.
EhbSite ==
  /\ eh.phase = "site"
  /\ LET rest == popUnknown(eh.stack)
     IN eh' = [eh EXCEPT
                 !.phase = "block", !.stack = rest,
                 !.released = [k \in 1..(Len(eh.stack) - Len(rest)) |->
                                 Len(eh.stack) + 1 - k]]
  /\ UNCHANGED <<sw, it, ic, dg, tv, sy, nb, mz, ov, sk, sr>>

\* A dec-ref block runs: its popDecRef releases its slot, then it jumps on.
EhbDecRef ==
  /\ eh.phase = "block"
  /\ eh.at # EntryBlock
  /\ \E c \in eh.code :
       /\ c.block = eh.at
       /\ eh' = [eh EXCEPT !.released = Append(@, c.pops),
                           !.stack = SubSeq(@, 1, Len(@) - 1),
                           !.at = c.next]
  /\ UNCHANGED <<sw, it, ic, dg, tv, sy, nb, mz, ov, sk, sr>>

\* Control is at the entry block of the handler.
EhbEntry ==
  /\ eh.phase = "block"
  /\ eh.at = EntryBlock
  /\ eh' = [eh EXCEPT !.phase = "handler"]
  /\ UNCHANGED <<sw, it, ic, dg, tv, sy, nb, mz, ov, sk, sr>>

EhBlocksNext == EhbEmit \/ EhbSite \/ EhbDecRef \/ EhbEntry

EhBlocksSpecInit ==
  /\ EhbInitial
  /\ sw = Idle /\ it = Idle /\ ic = Idle /\ dg = Idle
  /\ tv = Idle /\ sy = Idle /\ nb = Idle
  /\ mz = Idle /\ ov = Idle /\ sk = Idle /\ sr = Idle

SpecEhBlocks == EhBlocksSpecInit /\ [][EhBlocksNext]_vars

\* C28: whatever sites were lowered for the handler before, on the path from
\* a site to the entry block every slot that was live at the site is released
\* exactly once, the top of the stack first, and the stack is empty at the
\* entry block; a block about to run has code, releases the slot on top of
\* the stack and is not the entry block before the stack is empty; and a
\* dec-ref block serves two sites only with the same stack values from the
\* stack base up to its slot.
C28_SlotsReleasedOnceTopDown ==
  /\ eh.phase = "handler" =>
       /\ eh.released = [k \in 1..Len(eh.live) |-> Len(eh.live) + 1 - k]
       /\ eh.stack = <<>>
  /\ eh.phase = "block" =>
       /\ \E c \in eh.code : c.block = eh.at
       /\ \A c \in eh.code : c.block = eh.at => c.pops = Len(eh.stack)
       /\ eh.at = EntryBlock <=> eh.stack = <<>>
  /\ eh.phase \in {"site", "block", "handler"} =>
       \A u, v \in eh.uses : u[1] = v[1] => u[2] = v[2]

\* The second site of the handler, with two known values on its stack, built
\* one block of its own and went through a block of the first site to the
\* entry block.
C28_Witness ==
  /\ eh.phase = "handler"
  /\ eh.sites = 2
  /\ eh.live = <<"a", "a">>
  /\ Cardinality(eh.fresh) = 1
  /\ eh.released = <<2, 1>>

=============================================================================
